---- MODULE Spec2Model ----
(***************************************************************************)
(* Media scanning orchestrator: the batching queue (services/queue.js),    *)
(* the scan orchestrator (services/media_scanner.js), the job store        *)
(* (services/db.js) and the upload-complete route (routes/media.js).       *)
(*                                                                         *)
(* Time is counted in milliseconds, as Date.now() and setTimeout count it, *)
(* and advances in steps of Tick.  A pending timer fires before time moves *)
(* past its deadline (timers are punctual).                                *)
(***************************************************************************)
EXTENDS Integers, Sequences, FiniteSets, TLC

\* ---------------------------------------------------------------- constants
IMAGE_MAX_WAIT == 10000
IMAGE_INTERVAL == 2000
IMAGE_BATCH_SIZE == 50
VIDEO_MAX_WAIT == 10000
VIDEO_INTERVAL == 3000
VIDEO_BATCH_SIZE == 10
MAX_RETRIES == 3
\* scanMediaJobs: `type === "images" && jobs.length <= 16`
VISION_MAX_JOBS == 16

\* ------------------------------------------------------------------- bounds
\* number of media jobs in the job store
NumJobs == 4
\* Spec: last instant at which time may still advance, and number of
\* upload-complete requests served
MaxTime == 5000
MaxUploads == 1
\* collaborator calls (storage, tables) that may fail during one scan
MaxFaults == 2
\* SpecScan: last instant at which time may still advance
MaxTimeScan == 4000
\* SpecQueue: last instant at which time may still advance, and number of
\* queueMediaJob calls per class
MaxTimeQueue == 12000
MaxEnqueues == 11
\* SpecRestart: last instant, counted from the start of a process, at which
\* time may still advance, and number of times a process at work is ended
MaxTimeRestart == 4000
MaxRestarts == 1
\* SpecUpload: last instant at which time may still advance, number of
\* upload-complete requests served, and collaborator calls that may fail
\* during one scan
MaxTimeUpload == 4000
MaxConfirms == 1
MaxFaultsUpload == 1
\* SpecReconcile: collaborator calls that may fail during one scan (every
\* call of one job's reconciliation)
MaxFaultsReconcile == 4
\* SpecSelect: longest batch handed to scanMediaJobs
MaxBatchLen == 18
\* SpecQueueLive: last instant at which queueMediaJob is called
LastEnqueueTime == 4000
\* SpecCleanup: rows in media_jobs, runs of the cleanup, and last instant at
\* which time may still advance
MaxCleanupJobs == 2
MaxCleanups == 2
MaxTimeCleanup == 5400500
\* SpecRate: calls of checkRateLimit by the first user and by the other
\* users together, calls of clearFromSpammerList, and last instant at which
\* time may still advance
MaxRateCalls == 11
MaxOtherCalls == 1
MaxClears == 1
MaxTimeRate == 61000

Tick == IMAGE_INTERVAL \div 2
\* Date.now() at process start (a positive number)
StartTime == Tick

Min(a, b) == IF a <= b THEN a ELSE b
B2N(b) == IF b THEN 0 ELSE 1

Classes == {"images", "videos"}

\* ----------------------------------------------------------------- the jobs
\* Rows of media_jobs as insertMediaJob writes them.  mime_type is kept as
\* <<type, subtype>>; startsWith('video') reads the first component.
JobIds == 1 .. NumJobs
mime_type(j) == IF j % 3 = 0 THEN <<"video", "mp4">> ELSE <<"image", "jpeg">>
user_id(j) == (j + 1) \div 2
sha256_hash(j) == ((j - 1) % 2) + 1
isVideoJob(j) == mime_type(j)[1] = "video"
classOf(j) == IF isVideoJob(j) THEN "videos" ELSE "images"

MAX_WAIT(isVideo) == IF isVideo THEN VIDEO_MAX_WAIT ELSE IMAGE_MAX_WAIT
INTERVAL(isVideo) == IF isVideo THEN VIDEO_INTERVAL ELSE IMAGE_INTERVAL
BATCH_SIZE(isVideo) == IF isVideo THEN VIDEO_BATCH_SIZE ELSE IMAGE_BATCH_SIZE
typeOf(isVideo) == IF isVideo THEN "videos" ELSE "images"

VARIABLES
    now,          \* Date.now()
    queue,        \* imageQueue / videoQueue: sequences of job objects
    scanning,     \* imageScanning / videoScanning
    timer,        \* imageTimer / videoTimer: deadline of the pending timeout, 0 if none
    timers,       \* the event loop: deadlines of the timeouts set and neither fired nor cleared
    firstTime,    \* firstImageTime / firstVideoTime, 0 when null
    pass,         \* the latest scanMediaJobs invocation of each class
    inflight,     \* number of scanMediaJobs invocations not yet settled, per class
    cycle,        \* history: when the waiting jobs of a class started to wait
    flushed,      \* history: the latest flush of each class
    nEnq,         \* history: number of queueMediaJob calls per class
    status,       \* media_jobs.status
    media,        \* media: number of rows per job_id
    objAt,        \* object storage: the buckets that hold the object of each job
    blocked,      \* blocked_hashes: number of rows per hash
    bans,         \* users_bans: number of rows per user
    uploads,      \* upload-complete handlers between their DB update and the enqueue
    nUploads,     \* history: upload-complete requests served
    requests,     \* history: the answer to the latest request-upload for each job
    target,       \* scanMediaJobs' loop body: the job at hand, its destination, the move asked for
    created_at,   \* media_jobs.created_at
    cleanup,      \* deleteOldJobs: its position and the cutoffs it computed
    rateLimits,   \* rate_limiter.js: the timestamps kept for each user
    spammerSet,   \* rate_limiter.js: the users flagged as spammers
    calls,        \* history: every call of checkRateLimit, with its time and its answer
    recovery      \* the recovery routine run at module load

vars == <<now, queue, scanning, timer, timers, firstTime, pass, inflight, cycle, flushed,
          nEnq, status, media, objAt, blocked, bans, uploads,
          nUploads, requests, target, created_at, cleanup, rateLimits, spammerSet,
          calls, recovery>>

queueVars == <<queue, scanning, timer, timers, firstTime, pass, inflight, cycle, flushed, nEnq>>
dbVars == <<status, media, objAt, blocked, bans>>
sideVars == <<target, created_at, cleanup, rateLimits, spammerSet, calls>>

\* The module state of queue.js (and what a flush starts), as one record, so
\* that the functions of queue.js compose as they call each other.
Mem == [queue |-> queue, scanning |-> scanning, timer |-> timer, timers |-> timers,
        firstTime |-> firstTime, pass |-> pass, inflight |-> inflight,
        cycle |-> cycle, flushed |-> flushed, nEnq |-> nEnq]

SetMem(m) ==
    /\ queue' = m.queue
    /\ scanning' = m.scanning
    /\ timer' = m.timer
    /\ timers' = m.timers
    /\ firstTime' = m.firstTime
    /\ pass' = m.pass
    /\ inflight' = m.inflight
    /\ cycle' = m.cycle
    /\ flushed' = m.flushed
    /\ nEnq' = m.nEnq
\* ------------------------------------------------------ a scan invocation
\* What one scanMediaJobs call did, per job id: the history the properties
\* of a batch are stated on.
Ops == {"commitMove", "commitMoveFailed", "quarantineMove", "record", "block",
        "restrict", "error"}
NoTally == [o \in Ops |-> [j \in JobIds |-> 0]]
Bump(t, o, j) == [t EXCEPT ![o][j] = @ + 1]
\* steps is history too: the collaborator calls of the reconciliation made for
\* each job, in the order in which they were made (the audit rows of failures
\* left out).
Step(p, j, call) == [p EXCEPT !.steps[j] = Append(@, call)]

IdlePass == [pc |-> "idle", type |-> "none", backend |-> "none", batch |-> <<>>,
             attempt |-> 0,
             results |-> <<>>, idx |-> 0, completedJobs |-> <<>>,
             tally |-> NoTally, steps |-> [j \in JobIds |-> <<>>],
             marked |-> {}, failAudit |-> 0, markError |-> 0,
             envFailed |-> FALSE, faults |-> 0, calls |-> 0]

\* (mutant) the size test is < instead of <=
selectBackendStrict(jobs, type) ==
    IF type = "images" /\ Len(jobs) < VISION_MAX_JOBS THEN "vision" ELSE "modal"

\* scanMediaJobs up to its first await: the backend is selected and called.
selectBackend(jobs, type) ==
    IF type = "images" /\ Len(jobs) <= VISION_MAX_JOBS THEN "vision" ELSE "modal"

\* ["images", "videos"].includes(type)
recognized(type) == type \in Classes

scanMediaJobsCall(jobs, type) ==
    IF ~recognized(type)
    THEN [IdlePass EXCEPT !.pc = "typecheck", !.type = type, !.batch = jobs]
    ELSE [IdlePass EXCEPT !.pc = selectBackend(jobs, type),
                          !.backend = selectBackend(jobs, type),
                          !.type = type, !.batch = jobs]

\* ------------------------------------------------------------- queue.js
\* (mutant) the scanning flag is not set
flushBatchNoFlag(isVideo, m) ==
    LET c == typeOf(isVideo)
        q == m.queue[c]
        n == Min(Len(q), BATCH_SIZE(isVideo))
        batch == SubSeq(q, 1, n)
    IN  [m EXCEPT
           !.queue[c] = SubSeq(q, n + 1, Len(q)),
           !.pass[c] = scanMediaJobsCall(batch, c),
           !.inflight[c] = @ + 1,
           !.flushed[c] = [n |-> @.n + 1, at |-> now, size |-> n, had |-> Len(q),
                           start |-> m.cycle[c].start,
                           lastEnq |-> m.cycle[c].lastEnq,
                           busy |-> m.cycle[c].busy],
           !.cycle[c] = [@ EXCEPT !.busy = TRUE]]

\* (mutant) slice() for splice(): the batch is copied, not cut, off the queue
flushBatchSlice(isVideo, m) ==
    LET c == typeOf(isVideo)
        q == m.queue[c]
        n == Min(Len(q), BATCH_SIZE(isVideo))
        batch == SubSeq(q, 1, n)
    IN  [m EXCEPT
           !.scanning[c] = TRUE,
           !.pass[c] = scanMediaJobsCall(batch, c),
           !.inflight[c] = @ + 1,
           !.flushed[c] = [n |-> @.n + 1, at |-> now, size |-> n, had |-> Len(q),
                           start |-> m.cycle[c].start,
                           lastEnq |-> m.cycle[c].lastEnq,
                           busy |-> m.cycle[c].busy],
           !.cycle[c] = [@ EXCEPT !.busy = TRUE]]

\* The lines of maybeFlushImages / maybeFlushVideos after the guard: the batch
\* is spliced off the queue, the flag is set and scanMediaJobs is called.
flushBatch(isVideo, m) ==
    LET c == typeOf(isVideo)
        q == m.queue[c]
        n == Min(Len(q), BATCH_SIZE(isVideo))
        batch == SubSeq(q, 1, n)
    IN  [m EXCEPT
           !.queue[c] = SubSeq(q, n + 1, Len(q)),
           !.scanning[c] = TRUE,
           !.pass[c] = scanMediaJobsCall(batch, c),
           !.inflight[c] = @ + 1,
           !.flushed[c] = [n |-> @.n + 1, at |-> now, size |-> n, had |-> Len(q),
                           start |-> m.cycle[c].start,
                           lastEnq |-> m.cycle[c].lastEnq,
                           busy |-> m.cycle[c].busy],
           !.cycle[c] = [@ EXCEPT !.busy = TRUE]]

\* (mutant) one scanning flag for both classes
maybeFlushSharedFlag(isVideo, m) ==
    IF (\E c \in Classes : m.scanning[c]) \/ Len(m.queue[typeOf(isVideo)]) = 0 THEN m
    ELSE flushBatch(isVideo, m)

\* (mutant) the scanning flag is not looked at
maybeFlushUnguarded(isVideo, m) ==
    IF Len(m.queue[typeOf(isVideo)]) = 0 THEN m ELSE flushBatch(isVideo, m)

\* maybeFlushImages / maybeFlushVideos
maybeFlush(isVideo, m) ==
    IF m.scanning[typeOf(isVideo)] \/ Len(m.queue[typeOf(isVideo)]) = 0 THEN m
    ELSE flushBatch(isVideo, m)

maybeFlushImages(m) == maybeFlush(FALSE, m)
maybeFlushVideos(m) == maybeFlush(TRUE, m)

flushClass(isVideo, m) == IF isVideo THEN maybeFlushVideos(m) ELSE maybeFlushImages(m)

\* (mutant) the interval of the other class
flushDelayOtherClass(isVideo, elapsed) ==
    Min(MAX_WAIT(isVideo) - elapsed, INTERVAL(~isVideo))

\* (mutant) the rest of the maximum wait is not looked at
flushDelayNoCap(isVideo, elapsed) == INTERVAL(isVideo)

\* The delay scheduleFlush passes to setTimeout.
flushDelay(isVideo, elapsed) == Min(MAX_WAIT(isVideo) - elapsed, INTERVAL(isVideo))

\* clearTimeout(imageTimer) / clearTimeout(videoTimer): the timeout the handle
\* names leaves the event loop; nothing happens if it fired already.
clearTimeout(c, m) ==
    IF m.timer[c] = 0 THEN m
    ELSE [m EXCEPT !.timers[c] = @ \ {m.timer[c]}, !.timer[c] = 0]

\* imageTimer / videoTimer = setTimeout(callback, delay)
setTimeout(c, delay, m) ==
    [m EXCEPT !.timers[c] = @ \cup {now + delay}, !.timer[c] = now + delay]

\* (mutant) the pending timeout is not cleared
scheduleFlushNoClear(isVideo, m) ==
    LET c == typeOf(isVideo)
        first == IF m.firstTime[c] = 0 THEN now ELSE m.firstTime[c]
        elapsed == now - first
    IN  IF elapsed >= MAX_WAIT(isVideo) \/ Len(m.queue[c]) >= BATCH_SIZE(isVideo)
        THEN flushClass(isVideo, [m EXCEPT !.firstTime[c] = 0])
        ELSE setTimeout(c, flushDelay(isVideo, elapsed), [m EXCEPT !.firstTime[c] = first])

\* (mutant) the size test is > instead of >=
scheduleFlushStrict(isVideo, m) ==
    LET c == typeOf(isVideo)
        first == IF m.firstTime[c] = 0 THEN now ELSE m.firstTime[c]
        elapsed == now - first
        m1 == clearTimeout(c, m)
    IN  IF elapsed >= MAX_WAIT(isVideo) \/ Len(m.queue[c]) > BATCH_SIZE(isVideo)
        THEN flushClass(isVideo, [m1 EXCEPT !.firstTime[c] = 0])
        ELSE setTimeout(c, flushDelay(isVideo, elapsed), [m1 EXCEPT !.firstTime[c] = first])

scheduleFlush(isVideo, m) ==
    LET c == typeOf(isVideo)
        first == IF m.firstTime[c] = 0 THEN now ELSE m.firstTime[c]
        elapsed == now - first
        m1 == clearTimeout(c, m)
    IN  IF elapsed >= MAX_WAIT(isVideo) \/ Len(m.queue[c]) >= BATCH_SIZE(isVideo)
        THEN flushClass(isVideo, [m1 EXCEPT !.firstTime[c] = 0])
        ELSE setTimeout(c, flushDelay(isVideo, elapsed), [m1 EXCEPT !.firstTime[c] = first])

\* (mutant) the callback clears the marker and does not flush
timerCallbackNoFlush(isVideo, m) == [m EXCEPT !.firstTime[typeOf(isVideo)] = 0]

\* The callback of the timeout scheduleFlush sets.
timerCallback(isVideo, m) ==
    LET c == typeOf(isVideo)
    IN  flushClass(isVideo, [m EXCEPT !.firstTime[c] = 0])

\* The event loop takes the timeout due at d out of its table before it runs
\* the callback.
expire(c, d, m) ==
    [m EXCEPT !.timers[c] = @ \ {d}, !.timer[c] = IF @ = d THEN 0 ELSE @]

\* (mutant) .then() for .finally(): the callback runs only if the scan resolved
scanFinallyOnSuccess(isVideo, m) ==
    LET c == typeOf(isVideo)
        m1 == [m EXCEPT !.scanning[c] = FALSE, !.inflight[c] = @ - 1]
    IN  IF m.pass[c].pc = "rejected" THEN [m EXCEPT !.inflight[c] = @ - 1]
        ELSE IF Len(m1.queue[c]) > 0 THEN scheduleFlush(isVideo, m1) ELSE m1

\* (mutant) the callback only clears the flag
scanFinallyNoReschedule(isVideo, m) ==
    [m EXCEPT !.scanning[typeOf(isVideo)] = FALSE, !.inflight[typeOf(isVideo)] = @ - 1]

\* The .finally() callback of maybeFlushImages / maybeFlushVideos.
scanFinally(isVideo, m) ==
    LET c == typeOf(isVideo)
        m1 == [m EXCEPT !.scanning[c] = FALSE, !.inflight[c] = @ - 1]
    IN  IF Len(m1.queue[c]) > 0 THEN scheduleFlush(isVideo, m1) ELSE m1

\* (mutant) the test on mime_type is negated: the job goes to the other queue
queueMediaJobOtherClass(j, m) ==
    LET isVideo == ~isVideoJob(j)
        c == typeOf(isVideo)
        job == [id |-> j, seq |-> m.nEnq[c] + 1]
        m1 == [m EXCEPT
                 !.queue[c] = Append(@, job),
                 !.nEnq[c] = @ + 1,
                 !.cycle[c] = IF Len(m.queue[c]) = 0
                              THEN [start |-> now, lastEnq |-> now, busy |-> m.scanning[c]]
                              ELSE [@ EXCEPT !.lastEnq = now]]
    IN  scheduleFlush(isVideo, m1)

\* A job object: the row, plus seq, which tells the objects of one class
\* apart (each call of queueMediaJob is handed a new object).
queueMediaJob(j, m) ==
    LET isVideo == isVideoJob(j)
        c == typeOf(isVideo)
        job == [id |-> j, seq |-> m.nEnq[c] + 1]
        m1 == [m EXCEPT
                 !.queue[c] = Append(@, job),
                 !.nEnq[c] = @ + 1,
                 !.cycle[c] = IF Len(m.queue[c]) = 0
                              THEN [start |-> now, lastEnq |-> now, busy |-> m.scanning[c]]
                              ELSE [@ EXCEPT !.lastEnq = now]]
    IN  scheduleFlush(isVideo, m1)

\* ---------------------------------------------------------------- timers
TimerFire(c) ==
    \E d \in timers[c] :
        /\ d <= now
        /\ SetMem(timerCallback(c = "videos", expire(c, d, Mem)))
        /\ UNCHANGED <<now, dbVars, uploads, nUploads, requests, sideVars, recovery>>

\* The clock advances by one Tick.  Timers are punctual: time does not pass a
\* wake-up that is due.  The program reads the clock only in scheduleFlush and
\* only relative to a batch start, so time is let pass only while a wake-up
\* is armed.
TimePasses(limit) ==
    /\ now + Tick <= limit
    /\ \E c \in Classes : timers[c] # {}
    /\ \A c \in Classes : \A d \in timers[c] : d > now
    /\ now' = now + Tick
    /\ UNCHANGED <<queueVars, dbVars, uploads, nUploads, requests, sideVars, recovery>>

\* ------------------------------------------------- POST /upload-complete
\* markMediaJobAsUploaded: UPDATE media_jobs SET status = 'pending' WHERE id = jobId
markMediaJobAsUploaded(j, st) == [st EXCEPT ![j] = "pending"]

\* The handler up to the resolution of `await markMediaJobAsUploaded(uuid)`.
UploadCompleteMark(j, limit) ==
    /\ nUploads < limit
    /\ nUploads' = nUploads + 1
    /\ status' = markMediaJobAsUploaded(j, status)
    /\ uploads' = [uploads EXCEPT ![j] = @ + 1]
    /\ UNCHANGED <<now, queueVars, media, objAt, blocked, bans, requests, sideVars, recovery>>

\* The rest of the handler: queueMediaJob(...) and the 'queued' response.
UploadCompleteQueue(j) ==
    /\ uploads[j] > 0
    /\ uploads' = [uploads EXCEPT ![j] = @ - 1]
    /\ SetMem(queueMediaJob(j, Mem))
    /\ UNCHANGED <<now, dbVars, nUploads, requests, sideVars, recovery>>

\* ------------------------------------------------------------- logSystemEvent
\* The row is inserted into logs, or the insert fails and the failure is only
\* printed: logSystemEvent never throws.  The pipeline never reads logs; the
\* rows written are kept where they are written (recovery.logged, and the
\* tallies of a scan), n being the number of such rows so far.
logSystemEvent(n, inserted) == IF inserted THEN n + 1 ELSE n

\* ------------------------------------------------- recovery at module load
\* getPendingMediaJobs: SELECT * FROM media_jobs WHERE status = 'pending'
AllJobsSeq == [i \in 1 .. NumJobs |-> i]
IsPending(j) == status[j] = "pending"

\* (mutant) the filter is on another status
IsAwaitingUpload(j) == status[j] = "awaiting_upload"
getAwaitingMediaJobs == SelectSeq(AllJobsSeq, IsAwaitingUpload)

getPendingMediaJobs == SelectSeq(AllJobsSeq, IsPending)

\* starts and owed are history: the number of times a process at work was
\* ended, and the jobs a scan of the process before left behind when its
\* backend failed (none before the first process).
RecoveryInit == [pc |-> "fetch", missedJobs |-> <<>>, idx |-> 0,
                 readmitted |-> [j \in JobIds |-> 0], failed |-> {}, logged |-> 0,
                 starts |-> 0, owed |-> {}]

RecoveryFetch ==
    /\ recovery.pc = "fetch"
    /\ \/ recovery' = [recovery EXCEPT
                         !.missedJobs = getPendingMediaJobs,
                         !.idx = 1,
                         !.pc = IF Len(getPendingMediaJobs) = 0 THEN "done" ELSE "loop"]
       \/ recovery' = [recovery EXCEPT !.pc = "rejected"]
    /\ UNCHANGED <<now, queueVars, dbVars, uploads, nUploads, requests, sideVars>>

\* The lines after the for loop.
recoveryEnd(m) ==
    LET m1 == IF Len(m.queue["images"]) > 0 THEN scheduleFlush(FALSE, m) ELSE m
    IN  IF Len(m1.queue["videos"]) > 0 THEN scheduleFlush(TRUE, m1) ELSE m1

\* (mutant) a job whose URL failed ends the loop (break for continue)
recoveryNextBreaks(r, m) ==
    IF r.idx + 1 > Len(r.missedJobs) \/ r.missedJobs[r.idx] \in r.failed
    THEN <<[r EXCEPT !.idx = @ + 1, !.pc = "done"], recoveryEnd(m)>>
    ELSE <<[r EXCEPT !.idx = @ + 1, !.pc = "loop"], m>>

\* Go to the next job of missedJobs, or leave the loop.
recoveryNext(r, m) ==
    IF r.idx + 1 > Len(r.missedJobs)
    THEN <<[r EXCEPT !.idx = @ + 1, !.pc = "done"], recoveryEnd(m)>>
    ELSE <<[r EXCEPT !.idx = @ + 1, !.pc = "loop"], m>>

\* One iteration of the loop; url tells what generateSignedGetUrl did:
\* "url" (a URL), "none" (a falsy value) or "throw".
RecoveryStep(url) ==
    /\ recovery.pc = "loop"
    /\ LET job == recovery.missedJobs[recovery.idx]
       IN  \/ /\ url = "url"
              /\ LET nx == recoveryNext(
                             [recovery EXCEPT !.readmitted[job] = @ + 1],
                             queueMediaJob(job, Mem))
                 IN  recovery' = nx[1] /\ SetMem(nx[2])
           \/ /\ url = "none"
              /\ LET nx == recoveryNext([recovery EXCEPT !.failed = @ \cup {job}], Mem)
                 IN  recovery' = nx[1] /\ SetMem(nx[2])
           \/ /\ url = "throw"
              /\ \E inserted \in BOOLEAN :
                    recovery' = [recovery EXCEPT
                                   !.failed = @ \cup {job},
                                   !.logged = logSystemEvent(@, inserted),
                                   !.pc = "logged"]
              /\ UNCHANGED queueVars
    /\ UNCHANGED <<now, dbVars, uploads, nUploads, requests, sideVars>>

\* `await logSystemEvent(...)` in the catch block has resolved.
RecoveryResume ==
    /\ recovery.pc = "logged"
    /\ LET nx == recoveryNext(recovery, Mem)
       IN  recovery' = nx[1] /\ SetMem(nx[2])
    /\ UNCHANGED <<now, dbVars, uploads, nUploads, requests, sideVars>>

\* ------------------------------------------------------------------- Init
\* No job is at hand in a loop body, no cleanup runs, the rows are new and the
\* rate limiter has seen no call.
Users == {user_id(j) : j \in JobIds}
NoTarget == [pc |-> "idle", linked_to_type |-> "undefined", file_name |-> <<>>,
             is_nsfw |-> FALSE, toBucket |-> "", toKey |-> <<>>,
             move |-> [fromKey |-> <<>>, toBucket |-> "", toKey |-> <<>>,
                       fromBucket |-> "undefined"]]
NoCleanup == [pc |-> "idle", completeCutoff |-> 0, incompleteCutoff |-> 0, runs |-> 0]

InitSide ==
    /\ target = NoTarget
    /\ created_at = [j \in JobIds |-> StartTime]
    /\ cleanup = NoCleanup
    /\ rateLimits = [u \in Users |-> <<>>]
    /\ spammerSet = {}
    /\ calls = [u \in Users |-> <<>>]

NoFlush == [n |-> 0, at |-> 0, size |-> 0, had |-> 0, start |-> 0, lastEnq |-> 0,
            busy |-> FALSE]

InitMemory ==
    /\ now = StartTime
    /\ queue = [c \in Classes |-> <<>>]
    /\ scanning = [c \in Classes |-> FALSE]
    /\ timer = [c \in Classes |-> 0]
    /\ timers = [c \in Classes |-> {}]
    /\ firstTime = [c \in Classes |-> 0]
    /\ pass = [c \in Classes |-> IdlePass]
    /\ inflight = [c \in Classes |-> 0]
    /\ cycle = [c \in Classes |-> [start |-> 0, lastEnq |-> 0, busy |-> FALSE]]
    /\ flushed = [c \in Classes |-> NoFlush]
    /\ nEnq = [c \in Classes |-> 0]
    /\ uploads = [j \in JobIds |-> 0]
    /\ nUploads = 0
    /\ requests = [j \in JobIds |-> "none"]
    /\ InitSide

InitStores ==
    /\ media = [j \in JobIds |-> 0]
    /\ objAt = [j \in JobIds |-> {"staging"}]
    /\ blocked = [h \in {sha256_hash(j) : j \in JobIds} |-> 0]
    /\ bans = [u \in {user_id(j) : j \in JobIds} |-> 0]

\* ------------------------------------- the batching queue taken alone
\* scanMediaJobs as queue.js sees it: a promise that settles.
ScanSettles(c) ==
    /\ pass[c].pc \in {"vision", "modal"}
    /\ \E outcome \in {"resolved", "rejected"} :
          SetMem(scanFinally(c = "videos", [Mem EXCEPT !.pass[c].pc = outcome]))
    /\ UNCHANGED <<now, dbVars, uploads, nUploads, requests, sideVars, recovery>>

\* No job was left pending by an earlier run: the recovery found nothing.
InitQueue ==
    /\ InitMemory
    /\ InitStores
    /\ status = [j \in JobIds |-> "awaiting_upload"]
    /\ recovery = [RecoveryInit EXCEPT !.pc = "done"]

\* queueMediaJob is called with jobs of the video class (a file key may be
\* confirmed again, so a job may be handed in again).
QueueJobs == {j \in JobIds : isVideoJob(j)}

Enqueue(j) ==
    /\ nEnq[classOf(j)] < MaxEnqueues
    /\ SetMem(queueMediaJob(j, Mem))
    /\ UNCHANGED <<now, dbVars, uploads, nUploads, requests, sideVars, recovery>>

NextQueue ==
    \/ \E j \in QueueJobs : Enqueue(j)
    \/ \E c \in Classes : TimerFire(c)
    \/ \E c \in Classes : ScanSettles(c)
    \/ TimePasses(MaxTimeQueue)

SpecQueue == InitQueue /\ [][NextQueue]_vars

\* The queue under the assumptions of its liveness: the calls of queueMediaJob
\* stop at some time; every timeout that is due fires, the clock goes on
\* while a timeout is pending (the event loop), and every scan settles.
EnqueueLive(j) ==
    /\ now <= LastEnqueueTime
    /\ Enqueue(j)

NextQueueLive ==
    \/ \E j \in QueueJobs : EnqueueLive(j)
    \/ \E c \in Classes : TimerFire(c)
    \/ \E c \in Classes : ScanSettles(c)
    \/ TimePasses(MaxTimeQueue)

FairQueue ==
    /\ \A c \in Classes : WF_vars(TimerFire(c))
    /\ \A c \in Classes : WF_vars(ScanSettles(c))
    /\ WF_vars(TimePasses(MaxTimeQueue))

SpecQueueLive == InitQueue /\ [][NextQueueLive]_vars /\ FairQueue
\* ------------------------------------------------------- media_scanner.js
\* A verdict as scanMediaJobs reads it from resultsById: present is FALSE when
\* resultsById[job.id] is undefined; is_nsfw is "true", "false" or "none"
\* (not a boolean); dims tells whether width and height are there.
Verdict(p, n, d, u, e) ==
    [present |-> p, is_nsfw |-> n, dims |-> d, duration |-> u, error |-> e]

\* safeSearchFromUrls: one { job_id, is_nsfw, raw } per image, or
\* { job_id, is_nsfw: false, error } for an image the API reports an error on.
safeSearchVerdicts ==
    { Verdict(TRUE, "true", FALSE, FALSE, FALSE),
      Verdict(TRUE, "false", FALSE, FALSE, FALSE),
      Verdict(TRUE, "false", FALSE, FALSE, TRUE) }

\* analyze_media (remote): { job_id, is_nsfw, width?, height?, duration? } for
\* some or all of the jobs.
remoteVerdicts ==
    { Verdict(FALSE, "none", FALSE, FALSE, FALSE),
      Verdict(TRUE, "none", TRUE, TRUE, FALSE),
      Verdict(TRUE, "true", TRUE, TRUE, FALSE),
      Verdict(TRUE, "false", TRUE, TRUE, FALSE),
      Verdict(TRUE, "false", TRUE, FALSE, FALSE),
      Verdict(TRUE, "false", FALSE, FALSE, FALSE) }

BatchIds(batch) == {batch[i].id : i \in DOMAIN batch}

\* typeof result.is_nsfw === "boolean"
hasVerdict(result) == result.present /\ result.is_nsfw \in {"true", "false"}

\* createMediaItem's checks on the record scanMediaJobs builds from the result.
mediaItemValid(j, result) ==
    /\ result.dims
    /\ isVideoJob(j) => result.duration

\* The scanMediaJobs promise settles; the .finally() callback runs.
settle(c, m, p, outcome) ==
    scanFinally(c = "videos", [m EXCEPT !.pass[c] = [p EXCEPT !.pc = outcome]])

\* safeSearchFromUrls(jobs) returns, or throws (scanMediaJobs then rejects).
VisionResponds(c) ==
    /\ pass[c].pc = "vision"
    /\ LET p == [pass[c] EXCEPT !.calls = @ + 1]
       IN  \/ \E res \in [BatchIds(p.batch) -> safeSearchVerdicts] :
                 pass' = [pass EXCEPT ![c] = [p EXCEPT !.results = res, !.pc = "loop",
                                                       !.idx = 1]]
              /\ UNCHANGED <<queue, scanning, timer, timers, firstTime, inflight, cycle,
                             flushed, nEnq>>
           \/ SetMem(settle(c, Mem, [p EXCEPT !.envFailed = TRUE], "rejected"))
    /\ UNCHANGED <<now, dbVars, uploads, nUploads, requests, sideVars, recovery>>

\* One turn of withRetry's loop: fn.remote returns a result list, or the
\* attempt fails; after MAX_RETRIES failures scanMediaJobs logs and rejects.
ModalResponds(c) ==
    /\ pass[c].pc = "modal"
    /\ LET p == [pass[c] EXCEPT !.calls = @ + 1]
       IN  \/ /\ \E res \in [BatchIds(p.batch) -> remoteVerdicts] :
                    pass' = [pass EXCEPT ![c] = [p EXCEPT !.results = res,
                                                          !.pc = "loop", !.idx = 1]]
              /\ UNCHANGED <<queue, scanning, timer, timers, firstTime, inflight, cycle,
                             flushed, nEnq>>
           \/ /\ p.attempt + 1 < MAX_RETRIES
              /\ pass' = [pass EXCEPT ![c] = [p EXCEPT !.attempt = @ + 1,
                                                       !.envFailed = TRUE]]
              /\ UNCHANGED <<queue, scanning, timer, timers, firstTime, inflight, cycle,
                             flushed, nEnq>>
           \/ /\ p.attempt + 1 >= MAX_RETRIES
              /\ \E inserted \in BOOLEAN :
                    SetMem(settle(c, Mem,
                             [p EXCEPT !.attempt = @ + 1, !.envFailed = TRUE,
                                       !.faults = @ + B2N(inserted),
                                       !.failAudit = logSystemEvent(@, inserted)],
                             "rejected"))
    /\ UNCHANGED <<now, dbVars, uploads, nUploads, requests, sideVars, recovery>>
\* The tables and the object storage, as one record.
Db == [status |-> status, media |-> media, objAt |-> objAt, blocked |-> blocked,
       bans |-> bans]

SetDb(d) ==
    /\ status' = d.status
    /\ media' = d.media
    /\ objAt' = d.objAt
    /\ blocked' = d.blocked
    /\ bans' = d.bans

\* What the collaborators do during one step of a scan: hash, ban, insert and
\* audit tell whether the insert into blocked_hashes, users_bans, media and
\* logs goes through; move tells how far the object move gets ("ok", or the
\* command that fails: "copy" or "delete"); mark is the update of media_jobs.
Envs == [hash : BOOLEAN, ban : BOOLEAN, insert : BOOLEAN, audit : BOOLEAN,
         move : {"ok", "copy", "delete"}, mark : BOOLEAN]

Faults(e) == B2N(e.hash) + B2N(e.ban) + B2N(e.insert) + B2N(e.audit)
             + B2N(e.move = "ok") + B2N(e.mark)

\* The collaborators a step calls (the others are left at their good value),
\* with at most budget failures.
EnvsOf(used, budget) ==
    {e \in Envs : /\ Faults(e) <= budget
                  /\ "hash" \notin used => e.hash
                  /\ "ban" \notin used => e.ban
                  /\ "insert" \notin used => e.insert
                  /\ "audit" \notin used => e.audit
                  /\ "move" \notin used => e.move = "ok"
                  /\ "mark" \notin used => e.mark}

\* moveObjectWithinBuckets: CopyObject from the staging key, then DeleteObject.
\* The copy needs the object to be at the staging key.
moveCopies(d, j, how) == "staging" \in d.objAt[j] /\ how # "copy"
moveSucceeds(d, j, how) == "staging" \in d.objAt[j] /\ how = "ok"
moveObjectWithinBuckets(d, j, to, how) ==
    IF moveSucceeds(d, j, how) THEN [d EXCEPT !.objAt[j] = (@ \ {"staging"}) \cup {to}]
    ELSE IF moveCopies(d, j, how) THEN [d EXCEPT !.objAt[j] = @ \cup {to}]
    ELSE d

\* logSystemEvent as scanMediaJobs calls it, with row = <<action, error_name,
\* target_id>>: the error rows that name a job are tallied under "error".
audit(dp, row, e) ==
    <<dp[1],
      [dp[2] EXCEPT !.envFailed = @ \/ ~e.audit,
                    !.tally = IF row[1] = "error" /\ row[3] # 0
                              THEN [@ EXCEPT !["error"][row[3]] =
                                                logSystemEvent(@, e.audit)]
                              ELSE @]>>

failed(dp) == <<dp[1], [dp[2] EXCEPT !.envFailed = TRUE]>>

\* (mutant) unshift for push
pushFront(list, job) == <<job>> \o list

\* completedJobs.push(job)
push(list, job) == Append(list, job)

\* (mutant) one try block around the four steps: a failed blocklist insert
\* skips the rest and the job
quarantineOneTry(job, dp, e) ==
    LET j == job.id
        p1 == Step(dp[2], j, "addBlockedHash")
    IN  IF ~e.hash
        THEN audit(failed(<<dp[1], p1>>), <<"error", "blocked_hash_add_failed", j>>, e)
        ELSE LET p2 == Step([p1 EXCEPT !.tally = Bump(@, "block", j)], j,
                            "restrictUserMediaUploads")
                 d1 == [dp[1] EXCEPT !.blocked[sha256_hash(j)] = @ + 1]
                 s2 == IF e.ban
                       THEN <<[d1 EXCEPT !.bans[user_id(j)] = @ + 1],
                              [p2 EXCEPT !.tally = Bump(@, "restrict", j)]>>
                       ELSE failed(<<d1, p2>>)
                 s3 == audit(<<s2[1], Step(s2[2], j, "logSystemEvent")>>,
                             <<"unsafe_content_detected", "", j>>, e)
                 p4 == Step(s3[2], j, "moveObjectWithinBuckets")
                 s4 == IF moveSucceeds(s3[1], j, e.move)
                       THEN <<moveObjectWithinBuckets(s3[1], j, "quarantine", e.move),
                              [p4 EXCEPT !.tally = Bump(@, "quarantineMove", j)]>>
                       ELSE audit(<<moveObjectWithinBuckets(s3[1], j, "quarantine", e.move),
                                    [p4 EXCEPT !.envFailed = @ \/ e.move # "ok"]>>,
                                  <<"error", "quarantine_move_failed", j>>, e)
             IN  <<s4[1], [s4[2] EXCEPT !.completedJobs = Append(@, job)]>>

\* Quarantine path, steps 1 to 4.
quarantine(job, dp, e) ==
    LET j == job.id
        p1 == Step(dp[2], j, "addBlockedHash")
        s1 == IF e.hash
              THEN <<[dp[1] EXCEPT !.blocked[sha256_hash(j)] = @ + 1],
                     [p1 EXCEPT !.tally = Bump(@, "block", j)]>>
              ELSE audit(failed(<<dp[1], p1>>), <<"error", "blocked_hash_add_failed", j>>, e)
        p2 == Step(s1[2], j, "restrictUserMediaUploads")
        s2 == IF e.ban
              THEN <<[s1[1] EXCEPT !.bans[user_id(j)] = @ + 1],
                     [p2 EXCEPT !.tally = Bump(@, "restrict", j)]>>
              ELSE failed(<<s1[1], p2>>)
        s3 == audit(<<s2[1], Step(s2[2], j, "logSystemEvent")>>,
                    <<"unsafe_content_detected", "", j>>, e)
        p4 == Step(s3[2], j, "moveObjectWithinBuckets")
        s4 == IF moveSucceeds(s3[1], j, e.move)
              THEN <<moveObjectWithinBuckets(s3[1], j, "quarantine", e.move),
                     [p4 EXCEPT !.tally = Bump(@, "quarantineMove", j)]>>
              ELSE audit(<<moveObjectWithinBuckets(s3[1], j, "quarantine", e.move),
                           [p4 EXCEPT !.envFailed = @ \/ e.move # "ok"]>>,
                         <<"error", "quarantine_move_failed", j>>, e)
    IN  <<s4[1], [s4[2] EXCEPT !.completedJobs = push(@, job)]>>

\* createMediaItem: the record is checked, then inserted into media.
createMediaItemSucceeds(j, result, e) == mediaItemValid(j, result) /\ e.insert

\* (mutant) no `continue` after a failed createMediaItem: the job is still
\* pushed to completedJobs
commitAlwaysCompletes(job, result, dp, e) ==
    LET j == job.id
    IN  IF ~moveSucceeds(dp[1], j, e.move)
        THEN audit(<<moveObjectWithinBuckets(dp[1], j, "final", e.move),
                     [dp[2] EXCEPT !.envFailed = @ \/ e.move # "ok",
                                   !.tally = Bump(@, "commitMoveFailed", j)]>>,
                   <<"error", "media_move_failed", j>>, e)
        ELSE LET s1 == <<moveObjectWithinBuckets(dp[1], j, "final", e.move),
                         [dp[2] EXCEPT !.tally = Bump(@, "commitMove", j)]>>
                 s2 == IF ~createMediaItemSucceeds(j, result, e)
                       THEN audit(<<s1[1], [s1[2] EXCEPT !.envFailed = @ \/ ~e.insert]>>,
                                  <<"error", "media_create_failed", j>>, e)
                       ELSE <<[s1[1] EXCEPT !.media[j] = @ + 1],
                              [s1[2] EXCEPT !.tally = Bump(@, "record", j)]>>
             IN  <<s2[1], [s2[2] EXCEPT !.completedJobs = Append(@, job)]>>

\* (mutant) no `continue` after a failed move: the media item is still created
commitNoSkip(job, result, dp, e) ==
    LET j == job.id
        s1 == IF ~moveSucceeds(dp[1], j, e.move)
              THEN audit(<<moveObjectWithinBuckets(dp[1], j, "final", e.move),
                           [dp[2] EXCEPT !.envFailed = @ \/ e.move # "ok",
                                         !.tally = Bump(@, "commitMoveFailed", j)]>>,
                         <<"error", "media_move_failed", j>>, e)
              ELSE <<moveObjectWithinBuckets(dp[1], j, "final", e.move),
                     [dp[2] EXCEPT !.tally = Bump(@, "commitMove", j)]>>
    IN  IF ~createMediaItemSucceeds(j, result, e)
        THEN audit(<<s1[1], [s1[2] EXCEPT !.envFailed = @ \/ ~e.insert]>>,
                   <<"error", "media_create_failed", j>>, e)
        ELSE <<[s1[1] EXCEPT !.media[j] = @ + 1],
               [s1[2] EXCEPT !.tally = Bump(@, "record", j),
                             !.completedJobs = Append(@, job)]>>

\* Commit path: move to the final bucket, then create the media item; either
\* failure skips to the next job.
commit(job, result, dp, e) ==
    LET j == job.id
        p1 == Step(dp[2], j, "moveObjectWithinBuckets")
    IN  IF ~moveSucceeds(dp[1], j, e.move)
        THEN audit(<<moveObjectWithinBuckets(dp[1], j, "final", e.move),
                     [p1 EXCEPT !.envFailed = @ \/ e.move # "ok",
                                !.tally = Bump(@, "commitMoveFailed", j)]>>,
                   <<"error", "media_move_failed", j>>, e)
        ELSE LET s1 == <<moveObjectWithinBuckets(dp[1], j, "final", e.move),
                         Step([p1 EXCEPT !.tally = Bump(@, "commitMove", j)], j,
                              "createMediaItem")>>
             IN  IF ~createMediaItemSucceeds(j, result, e)
                 THEN audit(<<s1[1], [s1[2] EXCEPT !.envFailed = @ \/ ~e.insert]>>,
                            <<"error", "media_create_failed", j>>, e)
                 ELSE <<[s1[1] EXCEPT !.media[j] = @ + 1],
                        [s1[2] EXCEPT !.tally = Bump(@, "record", j),
                                      !.completedJobs = push(@, job)]>>

\* (mutant) the verdict is not looked at: every job takes the commit path
reconcileAlwaysCommits(job, dp, e) ==
    LET result == dp[2].results[job.id]
    IN  IF ~hasVerdict(result)
        THEN audit(dp, <<"error", "scan_result_missing", job.id>>, e)
        ELSE commit(job, result, dp, e)

\* The body of `for (const job of jobs)`.
reconcile(job, dp, e) ==
    LET result == dp[2].results[job.id]
    IN  IF ~hasVerdict(result)
        THEN audit(dp, <<"error", "scan_result_missing", job.id>>, e)
        ELSE IF result.is_nsfw = "true" THEN quarantine(job, dp, e)
        ELSE commit(job, result, dp, e)

calledBy(result) ==
    IF ~hasVerdict(result) THEN {"audit"}
    ELSE IF result.is_nsfw = "true" THEN {"hash", "ban", "audit", "move"}
    ELSE {"move", "insert", "audit"}

\* (mutant) a job that did not reconcile ends the loop (break for continue)
loopControlBreaks(before, after, last) ==
    IF last \/ Len(after.completedJobs) = Len(before.completedJobs)
    THEN "mark" ELSE "loop"

\* `continue` / end of the loop body: the next job if there is one, whatever
\* happened to this one (before, after: the invocation before and after it).
loopControl(before, after, last) == IF last THEN "mark" ELSE "loop"

ReconcileJob(c, maxFaults) ==
    /\ pass[c].pc = "loop"
    /\ pass[c].idx <= Len(pass[c].batch)
    /\ \E e \in EnvsOf(calledBy(pass[c].results[pass[c].batch[pass[c].idx].id]),
                        maxFaults - pass[c].faults) :
          LET r == reconcile(pass[c].batch[pass[c].idx],
                             <<Db, [pass[c] EXCEPT !.faults = @ + Faults(e)]>>, e)
              last == pass[c].idx = Len(pass[c].batch)
          IN  /\ SetDb(r[1])
              /\ pass' = [pass EXCEPT ![c] = [r[2] EXCEPT
                                                !.idx = @ + 1,
                                                !.pc = loopControl(pass[c], r[2], last)]]
    /\ UNCHANGED <<now, queue, scanning, timer, timers, firstTime, inflight, cycle, flushed,
                   nEnq, uploads, nUploads, requests, sideVars, recovery>>

\* markJobsAsComplete: nothing for an empty list; else one UPDATE ... IN (ids).
markJobsAsComplete(d, jobs, ok) ==
    IF Len(jobs) = 0 \/ ~ok THEN d
    ELSE [d EXCEPT !.status = [j \in JobIds |->
                                 IF j \in BatchIds(jobs) THEN "complete" ELSE @[j]]]

markSucceeds(jobs, ok) == Len(jobs) = 0 \/ ok

\* The try block after the loop, then the promise resolves.
FinishPass(c, maxFaults) ==
    /\ pass[c].pc = "mark"
    /\ \E e \in EnvsOf({"mark", "audit"}, maxFaults - pass[c].faults) :
          LET p == [pass[c] EXCEPT !.faults = @ + Faults(e)]
              ok == markSucceeds(p.completedJobs, e.mark)
              d1 == markJobsAsComplete(Db, p.completedJobs, e.mark)
              p1 == [p EXCEPT !.marked = IF ok THEN BatchIds(p.completedJobs) ELSE {},
                              !.envFailed = @ \/ ~ok,
                              !.markError = IF ok THEN @ ELSE logSystemEvent(@, e.audit)]
              r == audit(<<d1, p1>>,
                         IF ok THEN <<"scan", "", 0>>
                         ELSE <<"error", "mark_jobs_complete_failed", 0>>, e)
          IN  /\ SetDb(r[1])
              /\ SetMem(settle(c, Mem, r[2], "resolved"))
    /\ UNCHANGED <<now, uploads, nUploads, requests, sideVars, recovery>>

\* ------------------------------------------------------------ the service
\* At start some uploads of an earlier run may be confirmed and not yet
\* scanned (status pending); the others wait for their upload.
\* The clients of this run confirm the uploads of one image and one video.
ServiceJobs == {1, 3}

Init ==
    /\ InitMemory
    /\ InitStores
    /\ status \in [JobIds -> {"awaiting_upload", "pending"}]
    /\ \A j \in JobIds \ ServiceJobs : status[j] = "awaiting_upload"
    /\ recovery = RecoveryInit

Next ==
    \/ \E j \in ServiceJobs : UploadCompleteMark(j, MaxUploads)
    \/ \E j \in JobIds : UploadCompleteQueue(j)
    \/ RecoveryFetch
    \/ \E url \in {"url", "none", "throw"} : RecoveryStep(url)
    \/ RecoveryResume
    \/ \E c \in Classes : TimerFire(c)
    \/ TimePasses(MaxTime)
    \/ \E c \in Classes : VisionResponds(c)
    \/ \E c \in Classes : ModalResponds(c)
    \/ \E c \in Classes : ReconcileJob(c, 0)
    \/ \E c \in Classes : FinishPass(c, 0)

Spec == Init /\ [][Next]_vars
\* --------------------------------------------- the scan orchestrator alone
\* The uploads of some jobs were confirmed at start time and the jobs are
\* queued; the batches are flushed and scanned.
Mem0 == [queue |-> [c \in Classes |-> <<>>], scanning |-> [c \in Classes |-> FALSE],
         timer |-> [c \in Classes |-> 0], timers |-> [c \in Classes |-> {}],
         firstTime |-> [c \in Classes |-> 0],
         pass |-> [c \in Classes |-> IdlePass], inflight |-> [c \in Classes |-> 0],
         cycle |-> [c \in Classes |-> [start |-> 0, lastEnq |-> 0, busy |-> FALSE]],
         flushed |-> [c \in Classes |-> NoFlush], nEnq |-> [c \in Classes |-> 0]]

RECURSIVE enqueueAll(_, _)
enqueueAll(js, m) ==
    IF js = <<>> THEN m ELSE enqueueAll(Tail(js), queueMediaJob(Head(js), m))

\* The jobs queued at start: jobs of one class, or any two jobs.
ScanSets == {S \in SUBSET JobIds :
               Cardinality(S) <= 2 \/ \A x, y \in S : classOf(x) = classOf(y)}

InitScan ==
    /\ now = StartTime
    /\ uploads = [j \in JobIds |-> 0]
    /\ nUploads = 0
    /\ requests = [j \in JobIds |-> "none"]
    /\ InitSide
    /\ InitStores
    /\ recovery = [RecoveryInit EXCEPT !.pc = "done"]
    /\ \E S \in ScanSets :
          LET InS(j) == j \in S
              m == enqueueAll(SelectSeq(AllJobsSeq, InS), Mem0)
          IN  /\ status = [j \in JobIds |-> IF j \in S THEN "pending"
                                            ELSE "awaiting_upload"]
              /\ queue = m.queue
              /\ scanning = m.scanning
              /\ timer = m.timer
              /\ timers = m.timers
              /\ firstTime = m.firstTime
              /\ pass = m.pass
              /\ inflight = m.inflight
              /\ cycle = m.cycle
              /\ flushed = m.flushed
              /\ nEnq = m.nEnq

NextScan ==
    \/ \E c \in Classes : TimerFire(c)
    \/ TimePasses(MaxTimeScan)
    \/ \E c \in Classes : VisionResponds(c)
    \/ \E c \in Classes : ModalResponds(c)
    \/ \E c \in Classes : ReconcileJob(c, MaxFaults)
    \/ \E c \in Classes : FinishPass(c, MaxFaults)

SpecScan == InitScan /\ [][NextScan]_vars
\* ------------------------------------------- the service across restarts
\* The jobs of the batches whose latest scan ended in a backend failure.
FailedBatchJobs ==
    {j \in JobIds : \E c \in Classes :
        pass[c].pc = "rejected" /\ j \in BatchIds(pass[c].batch)}

\* Nothing is left to do in this process: the recovery is over, no scan is in
\* flight, nothing is queued and no wake-up is armed.
Quiescent ==
    /\ recovery.pc \in {"done", "rejected"}
    /\ \A c \in Classes :
          /\ pass[c].pc \in {"idle", "resolved", "rejected"}
          /\ queue[c] = <<>>
          /\ timer[c] = 0

\* The process ends and a new one starts: queue.js is loaded again, its state
\* is the initial one and the recovery runs; the tables and the object
\* storage are as the old process left them.  The clock is counted from the
\* start of the process (the program reads it only relative to an enqueue).
\* A process that has nothing left to do may always be started again; one
\* that is at work is ended MaxRestarts times at most.
Restart ==
    /\ recovery.starts < MaxRestarts \/ Quiescent
    /\ now' = StartTime
    /\ SetMem(Mem0)
    /\ uploads' = [j \in JobIds |-> 0]
    /\ nUploads' = 0
    /\ target' = NoTarget
    /\ cleanup' = NoCleanup
    /\ rateLimits' = [u \in Users |-> <<>>]
    /\ UNCHANGED <<requests, created_at, spammerSet, calls>>
    /\ recovery' = [RecoveryInit EXCEPT
                      !.starts = IF Quiescent THEN recovery.starts
                                 ELSE recovery.starts + 1,
                      !.owed = FailedBatchJobs]
    /\ UNCHANGED dbVars

NextRestart ==
    \/ Restart
    \/ RecoveryFetch
    \/ \E url \in {"url", "none", "throw"} : RecoveryStep(url)
    \/ RecoveryResume
    \/ \E c \in Classes : TimerFire(c)
    \/ TimePasses(MaxTimeRestart)
    \/ \E c \in Classes : VisionResponds(c)
    \/ \E c \in Classes : ModalResponds(c)
    \/ \E c \in Classes : ReconcileJob(c, 0)
    \/ \E c \in Classes : FinishPass(c, 0)

\* Every step of the program that can be taken is taken in the end (the
\* event loop runs every callback that is ready), and the process is started
\* again in the end.
FairRestart ==
    /\ WF_vars(Restart)
    /\ WF_vars(RecoveryFetch)
    /\ WF_vars(\E url \in {"url", "none", "throw"} : RecoveryStep(url))
    /\ WF_vars(RecoveryResume)
    /\ \A c \in Classes : WF_vars(TimerFire(c))
    /\ WF_vars(TimePasses(MaxTimeRestart))
    /\ \A c \in Classes : WF_vars(VisionResponds(c))
    /\ \A c \in Classes : WF_vars(ModalResponds(c))
    /\ \A c \in Classes : WF_vars(ReconcileJob(c, 0))
    /\ \A c \in Classes : WF_vars(FinishPass(c, 0))

SpecRestart == Init /\ [][NextRestart]_vars /\ FairRestart
\* ------------------------------------------- scanMediaJobs called directly
\* The if block at the head of scanMediaJobs: the invalid_scan_type row is
\* logged, then the call throws.
InvalidType(c) ==
    /\ pass[c].pc = "typecheck"
    /\ \E inserted \in BOOLEAN :
          SetMem(settle(c, Mem,
                   [pass[c] EXCEPT !.envFailed = ~inserted,
                                   !.faults = @ + B2N(inserted),
                                   !.failAudit = logSystemEvent(@, inserted)],
                   "rejected"))
    /\ UNCHANGED <<now, dbVars, uploads, nUploads, requests, sideVars, recovery>>

\* scanMediaJobs is exported: a caller may hand it any list of jobs and any
\* type.  The invocation is kept where the invocations of its class are kept,
\* one of an unrecognized class with those of the images.
CallTypes == {"images", "videos", "audio"}
CallSets == {S \in SUBSET JobIds : Cardinality(S) \in 1 .. 2}
CallSlot(type) == IF recognized(type) THEN type ELSE "images"

jobObjects(S) ==
    LET InS(j) == j \in S
        ids == SelectSeq(AllJobsSeq, InS)
    IN  [i \in 1 .. Len(ids) |-> [id |-> ids[i], seq |-> i]]

\* The call is made as maybeFlush makes it: the flag of the slot is set and
\* the .finally callback is attached.
InitCall ==
    /\ now = StartTime
    /\ uploads = [j \in JobIds |-> 0]
    /\ nUploads = 0
    /\ requests = [j \in JobIds |-> "none"]
    /\ InitSide
    /\ InitStores
    /\ recovery = [RecoveryInit EXCEPT !.pc = "done"]
    /\ queue = Mem0.queue
    /\ timer = Mem0.timer
    /\ timers = Mem0.timers
    /\ firstTime = Mem0.firstTime
    /\ cycle = Mem0.cycle
    /\ flushed = Mem0.flushed
    /\ nEnq = Mem0.nEnq
    /\ \E S \in CallSets, type \in CallTypes :
          /\ status = [j \in JobIds |-> IF j \in S THEN "pending" ELSE "awaiting_upload"]
          /\ scanning = [Mem0.scanning EXCEPT ![CallSlot(type)] = TRUE]
          /\ inflight = [Mem0.inflight EXCEPT ![CallSlot(type)] = 1]
          /\ pass = [Mem0.pass EXCEPT ![CallSlot(type)] =
                                         scanMediaJobsCall(jobObjects(S), type)]

NextCall ==
    \/ \E c \in Classes : InvalidType(c)
    \/ \E c \in Classes : VisionResponds(c)
    \/ \E c \in Classes : ModalResponds(c)
    \/ \E c \in Classes : ReconcileJob(c, MaxFaults)
    \/ \E c \in Classes : FinishPass(c, MaxFaults)

SpecCall == InitCall /\ [][NextCall]_vars
\* --------------------------- scanMediaJobs with every collaborator failing
\* As SpecCall, with enough failures for every call made for one job to fail.
NextReconcile ==
    \/ \E c \in Classes : InvalidType(c)
    \/ \E c \in Classes : VisionResponds(c)
    \/ \E c \in Classes : ModalResponds(c)
    \/ \E c \in Classes : ReconcileJob(c, MaxFaultsReconcile)
    \/ \E c \in Classes : FinishPass(c, MaxFaultsReconcile)

SpecReconcile == InitCall /\ [][NextReconcile]_vars
\* ------------------------------------------------- POST /request-upload
\* getUserBanStatus(...).isBanned and hasUploadBan: the rows of users_bans the
\* pipeline writes are of type media_upload and do not expire.
hasUploadBan(d, u) == d.bans[u] > 0

\* isHashBlocked: .maybeSingle() gives the row, null for no row, and an error
\* for more than one row.
isHashBlocked(d, h) == IF d.blocked[h] > 1 THEN "throw"
                       ELSE IF d.blocked[h] = 1 THEN "yes" ELSE "no"

\* (mutant) the hash is not looked up
requestUploadNoHashCheck(j, d, fail) ==
    IF fail = "banLookup" THEN <<"error", d>>
    ELSE IF hasUploadBan(d, user_id(j)) THEN <<"banned", d>>
    ELSE IF fail = "insert" THEN <<"error", d>>
    ELSE <<"created", [d EXCEPT !.status[j] = "awaiting_upload"]>>

\* The handler from the ban check on, for the request that would create job
\* j: the answer (403 "banned", 400 "blocked", 500 "error", or the signed URL
\* of the job "created") and the tables after it.  fail names the call that
\* throws, if one does.
requestUpload(j, d, fail) ==
    IF fail = "banLookup" THEN <<"error", d>>
    ELSE IF hasUploadBan(d, user_id(j)) THEN <<"banned", d>>
    ELSE IF fail = "hashLookup" \/ isHashBlocked(d, sha256_hash(j)) = "throw"
         THEN <<"error", d>>
    ELSE IF isHashBlocked(d, sha256_hash(j)) = "yes" THEN <<"blocked", d>>
    ELSE IF fail = "insert" THEN <<"error", d>>
    ELSE <<"created", [d EXCEPT !.status[j] = "awaiting_upload"]>>

\* A client asks to upload the file of job j (no row of media_jobs yet).
RequestUpload(j) ==
    /\ status[j] = "none"
    /\ \E fail \in {"no", "banLookup", "hashLookup", "insert"} :
          LET r == requestUpload(j, Db, fail)
          IN  /\ requests' = [requests EXCEPT ![j] = r[1]]
              /\ SetDb(r[2])
    /\ UNCHANGED <<now, queueVars, uploads, nUploads, sideVars, recovery>>

\* The client confirms the upload of a job it was given a URL for.
ConfirmUpload(j) ==
    /\ status[j] = "awaiting_upload"
    /\ UploadCompleteMark(j, MaxConfirms)

\* The clients ask for the uploads of an image, of another image of the same
\* user and of a video of another user with the hash of the first image.
RequestJobs == {1, 2, 3}

\* No row of media_jobs at start.
InitUpload ==
    /\ InitMemory
    /\ InitStores
    /\ status = [j \in JobIds |-> "none"]
    /\ recovery = [RecoveryInit EXCEPT !.pc = "done"]

NextUpload ==
    \/ \E j \in RequestJobs : RequestUpload(j)
    \/ \E j \in RequestJobs : ConfirmUpload(j)
    \/ \E j \in JobIds : UploadCompleteQueue(j)
    \/ \E c \in Classes : TimerFire(c)
    \/ TimePasses(MaxTimeUpload)
    \/ \E c \in Classes : VisionResponds(c)
    \/ \E c \in Classes : ModalResponds(c)
    \/ \E c \in Classes : ReconcileJob(c, MaxFaultsUpload)
    \/ \E c \in Classes : FinishPass(c, MaxFaultsUpload)

SpecUpload == InitUpload /\ [][NextUpload]_vars
\* ------------------------------------------- scanMediaJobs on long batches
\* scanMediaJobs is called with a batch of 1 to MaxBatchLen entries and a
\* recognized type.  The entries are of one row of media_jobs (a file key
\* confirmed again and again is queued again and again).
manyJobObjects(j, n) == [i \in 1 .. n |-> [id |-> j, seq |-> i]]

InitSelect ==
    /\ now = StartTime
    /\ uploads = [j \in JobIds |-> 0]
    /\ nUploads = 0
    /\ requests = [j \in JobIds |-> "none"]
    /\ InitSide
    /\ InitStores
    /\ recovery = [RecoveryInit EXCEPT !.pc = "done"]
    /\ queue = Mem0.queue
    /\ timer = Mem0.timer
    /\ timers = Mem0.timers
    /\ firstTime = Mem0.firstTime
    /\ cycle = Mem0.cycle
    /\ flushed = Mem0.flushed
    /\ nEnq = Mem0.nEnq
    /\ \E j \in JobIds, n \in 1 .. MaxBatchLen, type \in Classes :
          /\ status = [k \in JobIds |-> IF k = j THEN "pending" ELSE "awaiting_upload"]
          /\ scanning = [Mem0.scanning EXCEPT ![type] = TRUE]
          /\ inflight = [Mem0.inflight EXCEPT ![type] = 1]
          /\ pass = [Mem0.pass EXCEPT ![type] = scanMediaJobsCall(manyJobObjects(j, n), type)]

NextSelect ==
    \/ \E c \in Classes : VisionResponds(c)
    \/ \E c \in Classes : ModalResponds(c)
    \/ \E c \in Classes : ReconcileJob(c, 0)
    \/ \E c \in Classes : FinishPass(c, 0)

SpecSelect == InitSelect /\ [][NextSelect]_vars
\* ------------------------------- scanMediaJobs: where an object is moved to
\* Nothing else goes on: the queues are empty, no scan is in flight.
InitIdle ==
    /\ now = StartTime
    /\ uploads = [j \in JobIds |-> 0]
    /\ nUploads = 0
    /\ requests = [j \in JobIds |-> "none"]
    /\ InitStores
    /\ recovery = [RecoveryInit EXCEPT !.pc = "done"]
    /\ queue = Mem0.queue
    /\ scanning = Mem0.scanning
    /\ timer = Mem0.timer
    /\ timers = Mem0.timers
    /\ firstTime = Mem0.firstTime
    /\ pass = Mem0.pass
    /\ inflight = Mem0.inflight
    /\ cycle = Mem0.cycle
    /\ flushed = Mem0.flushed
    /\ nEnq = Mem0.nEnq

bucketMap ==
    [post |-> "posts-media", opportunity |-> "opportunities-media",
     chat_media |-> "chats-media", profile_picture |-> "users-media",
     profile_cover |-> "users-media", license_certification |-> "talent-profiles-media",
     education |-> "talent-profiles-media", project |-> "talent-profiles-media",
     award_achievement |-> "talent-profiles-media",
     work_experience |-> "talent-profiles-media",
     volunteer_experience |-> "talent-profiles-media",
     testimonial |-> "talent-profiles-media", publication |-> "talent-profiles-media"]

\* The values request-upload lets through as linked_to_type.
allowedLinkedTypes ==
    {"post", "opportunity", "license_certification", "education", "project",
     "award_achievement", "work_experience", "volunteer_experience", "testimonial",
     "message", "publication", "course", "note", "exam", "event", "chat_media",
     "profile_picture", "profile_cover"}

\* job.linked_to_type as scanMediaJobs may find it: an allowed value, or no
\* value ("undefined"), or the empty string.
LinkedTypes == allowedLinkedTypes \cup {"undefined", ""}

\* !x
falsy(x) == x \in {"undefined", ""}

\* A storage key is the sequence of its segments: a/b/c is <<a, b, c>>.
FileNames == {<<"images", "22", "a.jpeg">>, <<"videos", "7", "b.mp4">>}

\* (mutant) no fallback
getTargetBucketNoDefault(linked_to_type) ==
    IF linked_to_type \in DOMAIN bucketMap THEN bucketMap[linked_to_type] ELSE "undefined"

\* bucketMap[linked_to_type] || 'default-bucket'
getTargetBucket(linked_to_type) ==
    IF linked_to_type \in DOMAIN bucketMap THEN bucketMap[linked_to_type]
    ELSE "default-bucket"

prefixTypes == {"post", "opportunity"}

\* (mutant) every key is prefixed
toKeyAlwaysPrefixed(linked_to_type, file_name) == <<linked_to_type>> \o file_name

\* prefixTypes.includes(linked_to_type) || !linked_to_type
\*     ? job.file_name : `${linked_to_type}/${job.file_name}`
toKey(linked_to_type, file_name) ==
    IF linked_to_type \in prefixTypes \/ falsy(linked_to_type) THEN file_name
    ELSE <<linked_to_type>> \o file_name

\* The loop body has a job with a verdict at hand.
InitDestination ==
    /\ InitIdle
    /\ status = [j \in JobIds |-> "pending"]
    /\ created_at = [j \in JobIds |-> StartTime]
    /\ cleanup = NoCleanup
    /\ rateLimits = [u \in Users |-> <<>>]
    /\ spammerSet = {}
    /\ calls = [u \in Users |-> <<>>]
    /\ \E l \in LinkedTypes, f \in FileNames, n \in BOOLEAN :
          target = [NoTarget EXCEPT !.pc = "verdict", !.linked_to_type = l,
                                    !.file_name = f, !.is_nsfw = n]

\* const toBucket = ...; const toKey = ...;
Destination ==
    /\ target.pc = "verdict"
    /\ target' = [target EXCEPT
                    !.pc = "destination",
                    !.toBucket = getTargetBucket(target.linked_to_type),
                    !.toKey = toKey(target.linked_to_type, target.file_name)]
    /\ UNCHANGED <<now, queueVars, dbVars, uploads, nUploads, requests, created_at,
                   cleanup, rateLimits, spammerSet, calls, recovery>>

\* (mutant) the quarantine move goes to toKey
moveArgsQuarantinePrefixed(t) ==
    [fromKey |-> t.file_name, toBucket |-> IF t.is_nsfw THEN "quarantine" ELSE t.toBucket,
     toKey |-> t.toKey, fromBucket |-> "undefined"]

\* The argument of moveObjectWithinBuckets in the quarantine and in the commit
\* path; neither call names fromBucket.
moveArgs(t) ==
    IF t.is_nsfw
    THEN [fromKey |-> t.file_name, toBucket |-> "quarantine", toKey |-> t.file_name,
          fromBucket |-> "undefined"]
    ELSE [fromKey |-> t.file_name, toBucket |-> t.toBucket, toKey |-> t.toKey,
          fromBucket |-> "undefined"]

\* await moveObjectWithinBuckets({...})
MoveCall ==
    /\ target.pc = "destination"
    /\ target' = [target EXCEPT !.pc = "move", !.move = moveArgs(target)]
    /\ UNCHANGED <<now, queueVars, dbVars, uploads, nUploads, requests, created_at,
                   cleanup, rateLimits, spammerSet, calls, recovery>>

NextDestination == Destination \/ MoveCall

SpecDestination == InitDestination /\ [][NextDestination]_vars
\* ----------------------------------------------- deleteOldJobs (db.js)
\* deleteOldJobs({ completeDays: 7, incompleteMinutes: 60 })
completeDays == 7
incompleteMinutes == 60
CleanupTick == 30 * 60 * 1000

\* (mutant) the delete has no status filter
deleteWhereAnyStatus(st, s, cutoff) ==
    [j \in JobIds |-> IF st[j] # "none" /\ created_at[j] < cutoff THEN "none" ELSE st[j]]

\* supabase.from('media_jobs').delete().eq('status', s).lt('created_at', cutoff)
deleteWhere(st, s, cutoff) ==
    [j \in JobIds |-> IF st[j] = s /\ created_at[j] < cutoff THEN "none" ELSE st[j]]

\* The rows' ages at process start: at and just beyond each cutoff, and new.
CreatedAts ==
    { StartTime - completeDays * 24 * 60 * 60 * 1000 - 1,
      StartTime - completeDays * 24 * 60 * 60 * 1000,
      StartTime - incompleteMinutes * 60 * 1000 - 1,
      StartTime - incompleteMinutes * 60 * 1000,
      StartTime }

CleanupJobs == 1 .. Min(MaxCleanupJobs, NumJobs)

InitCleanup ==
    /\ InitIdle
    /\ target = NoTarget
    /\ cleanup = NoCleanup
    /\ rateLimits = [u \in Users |-> <<>>]
    /\ spammerSet = {}
    /\ calls = [u \in Users |-> <<>>]
    /\ \E st \in [CleanupJobs -> {"awaiting_upload", "pending", "complete"}] :
          status = [j \in JobIds |-> IF j \in CleanupJobs THEN st[j] ELSE "none"]
    /\ \E ca \in [CleanupJobs -> CreatedAts] :
          created_at = [j \in JobIds |-> IF j \in CleanupJobs THEN ca[j] ELSE StartTime]

\* deleteOldJobs is called (at startup and by the cron schedule): the two
\* cutoffs are computed from Date.now().
CleanupStart ==
    /\ cleanup.pc = "idle"
    /\ cleanup.runs < MaxCleanups
    /\ cleanup' = [pc |-> "complete",
                   completeCutoff |-> now - completeDays * 24 * 60 * 60 * 1000,
                   incompleteCutoff |-> now - incompleteMinutes * 60 * 1000,
                   runs |-> cleanup.runs + 1]
    /\ UNCHANGED <<now, queueVars, dbVars, uploads, nUploads, requests, target,
                   created_at, rateLimits, spammerSet, calls, recovery>>

\* The first delete; its outcome is not looked at, so a failed one passes
\* unnoticed.
DeleteComplete(ok) ==
    /\ cleanup.pc = "complete"
    /\ status' = IF ok THEN deleteWhere(status, "complete", cleanup.completeCutoff)
                 ELSE status
    /\ cleanup' = [cleanup EXCEPT !.pc = "incomplete"]
    /\ UNCHANGED <<now, queueVars, media, objAt, blocked, bans, uploads, nUploads,
                   requests, target, created_at, rateLimits, spammerSet, calls, recovery>>

\* The second delete.
DeleteIncomplete(ok) ==
    /\ cleanup.pc = "incomplete"
    /\ status' = IF ok THEN deleteWhere(status, "awaiting_upload", cleanup.incompleteCutoff)
                 ELSE status
    /\ cleanup' = [cleanup EXCEPT !.pc = "idle"]
    /\ UNCHANGED <<now, queueVars, media, objAt, blocked, bans, uploads, nUploads,
                   requests, target, created_at, rateLimits, spammerSet, calls, recovery>>

\* Meanwhile the rows move on: an upload is confirmed (markMediaJobAsUploaded,
\* on a row of any status) ...
RowConfirmed(j) ==
    /\ status[j] # "none"
    /\ status' = markMediaJobAsUploaded(j, status)
    /\ UNCHANGED <<now, queueVars, media, objAt, blocked, bans, uploads, nUploads,
                   requests, sideVars, recovery>>

\* ... or a scan marks a pending job complete (markJobsAsComplete).
RowCompleted(j) ==
    /\ status[j] = "pending"
    /\ SetDb(markJobsAsComplete(Db, jobObjects({j}), TRUE))
    /\ UNCHANGED <<now, queueVars, uploads, nUploads, requests, sideVars, recovery>>

CleanupTimePasses ==
    /\ now + CleanupTick <= MaxTimeCleanup
    /\ now' = now + CleanupTick
    /\ UNCHANGED <<queueVars, dbVars, uploads, nUploads, requests, sideVars, recovery>>

NextCleanup ==
    \/ CleanupStart
    \/ \E ok \in BOOLEAN : DeleteComplete(ok)
    \/ \E ok \in BOOLEAN : DeleteIncomplete(ok)
    \/ \E j \in JobIds : RowConfirmed(j)
    \/ \E j \in JobIds : RowCompleted(j)
    \/ CleanupTimePasses

SpecCleanup == InitCleanup /\ [][NextCleanup]_vars
\* ------------------------------------------------------- rate_limiter.js
LIMIT_PER_MINUTE == 10
SPAM_THRESHOLD == 50
WINDOW_MS == 60 * 1000

\* The module state of rate_limiter.js as one record, with the history.
Rate == [rateLimits |-> rateLimits, spammerSet |-> spammerSet, calls |-> calls]

SetRate(m) ==
    /\ rateLimits' = m.rateLimits
    /\ spammerSet' = m.spammerSet
    /\ calls' = m.calls

isSpammer(key, m) == key \in m.spammerSet

\* One entry of the history.
callRecord(t, op, ok, m, key) == [at |-> t, op |-> op, ok |-> ok, flagged |-> isSpammer(key, m)]

\* (mutant) a call that is denied is not kept
checkRateLimitDropDenied(userId, t, m) ==
    LET InWindow(ts) == t - ts < WINDOW_MS
        timestamps == Append(SelectSeq(m.rateLimits[userId], InWindow), t)
        ok == ~isSpammer(userId, m) /\ Len(timestamps) <= LIMIT_PER_MINUTE
    IN  [m EXCEPT !.rateLimits[userId] = IF ok THEN timestamps ELSE @,
                  !.calls[userId] = Append(@, callRecord(t, "check", ok, m, userId))]

\* checkRateLimit({ userId }) at Date.now() = t; the answer is the ok of the
\* entry added to the history.  spammerSet stands for the set and for
\* spammers.json, which saveSpammersToDisk keeps equal to it.
checkRateLimit(userId, t, m) ==
    LET InWindow(ts) == t - ts < WINDOW_MS
        timestamps == Append(SelectSeq(m.rateLimits[userId], InWindow), t)
    IN  IF isSpammer(userId, m)
        THEN [m EXCEPT !.calls[userId] = Append(@, callRecord(t, "check", FALSE, m, userId))]
        ELSE IF Len(timestamps) > SPAM_THRESHOLD
        THEN [m EXCEPT !.rateLimits[userId] = timestamps,
                       !.spammerSet = @ \cup {userId},
                       !.calls[userId] = Append(@, callRecord(t, "check", FALSE, m, userId))]
        ELSE [m EXCEPT !.rateLimits[userId] = timestamps,
                       !.calls[userId] =
                           Append(@, callRecord(t, "check",
                                            Len(timestamps) <= LIMIT_PER_MINUTE, m, userId))]

\* clearFromSpammerList(key)
clearFromSpammerList(key, t, m) ==
    IF isSpammer(key, m)
    THEN [m EXCEPT !.spammerSet = @ \ {key},
                   !.calls[key] = Append(@, callRecord(t, "clear", FALSE, m, key))]
    ELSE m

\* n calls of checkRateLimit in a row, or as many as it takes to be flagged
RECURSIVE burst(_, _, _, _)
burst(userId, t, n, m) ==
    IF n = 0 \/ isSpammer(userId, m) THEN m
    ELSE burst(userId, t, n - 1, checkRateLimit(userId, t, m))

FirstUser == CHOOSE u \in Users : \A v \in Users : u <= v

\* What the first user has called, a millisecond before the model starts:
\* nothing, or a burst that went on until the user was flagged.
Bursts == {0, SPAM_THRESHOLD + 1}
BurstTime == StartTime - 1

InitRate ==
    /\ InitIdle
    /\ status = [j \in JobIds |-> "none"]
    /\ target = NoTarget
    /\ created_at = [j \in JobIds |-> StartTime]
    /\ cleanup = NoCleanup
    /\ \E n \in Bursts :
          LET m == burst(FirstUser, BurstTime, n,
                         [rateLimits |-> [u \in Users |-> <<>>], spammerSet |-> {},
                          calls |-> [u \in Users |-> <<>>]])
          IN  /\ rateLimits = m.rateLimits
              /\ spammerSet = m.spammerSet
              /\ calls = m.calls

\* The calls that the model has added to the burst.
NumChecks(u) ==
    LET IsCheck(e) == e.op = "check" /\ e.at # BurstTime
    IN  Len(SelectSeq(calls[u], IsCheck))

RECURSIVE NumChecksOf(_)
NumChecksOf(S) ==
    IF S = {} THEN 0
    ELSE LET u == CHOOSE x \in S : TRUE IN NumChecks(u) + NumChecksOf(S \ {u})

RECURSIVE NumClearsOf(_)
NumClearsOf(S) ==
    IF S = {} THEN 0
    ELSE LET u == CHOOSE x \in S : TRUE
             IsClear(e) == e.op = "clear"
         IN  Len(SelectSeq(calls[u], IsClear)) + NumClearsOf(S \ {u})

\* POST /request-upload calls checkRateLimit({ userId })
CheckRateLimit(u) ==
    /\ IF u = FirstUser THEN NumChecks(u) < MaxRateCalls
       ELSE NumChecksOf(Users \ {FirstUser}) < MaxOtherCalls
    /\ SetRate(checkRateLimit(u, now, Rate))
    /\ UNCHANGED <<now, queueVars, dbVars, uploads, nUploads, requests, target,
                   created_at, cleanup, recovery>>

ClearFromSpammerList(u) ==
    /\ NumClearsOf(Users) < MaxClears
    /\ SetRate(clearFromSpammerList(u, now, Rate))
    /\ UNCHANGED <<now, queueVars, dbVars, uploads, nUploads, requests, target,
                   created_at, cleanup, recovery>>

\* The instants looked at, counted from the burst: the millisecond before
\* the end of every window, and its end.
RateTimePasses ==
    LET since == now - BurstTime
        into == since % WINDOW_MS
        next == IF into < WINDOW_MS - 1 THEN since - into + WINDOW_MS - 1 ELSE since + 1
    IN  /\ BurstTime + next <= MaxTimeRate
        /\ now' = BurstTime + next
        /\ UNCHANGED <<queueVars, dbVars, uploads, nUploads, requests, sideVars, recovery>>

NextRate ==
    \/ \E u \in Users : CheckRateLimit(u)
    \/ \E u \in Users : ClearFromSpammerList(u)
    \/ RateTimePasses

SpecRate == InitRate /\ [][NextRate]_vars
\* ================================================================ properties
IsVideo(c) == c = "videos"
IsPrefix(s, t) == Len(s) <= Len(t) /\ SubSeq(t, 1, Len(s)) = s

\* C1: in every reachable state at most one scanMediaJobs invocation of each
\* class is in flight.
SingleFlight == \A c \in Classes : inflight[c] <= 1

\* A flush request (the timer) came while a scan was in flight, with jobs queued.
SingleFlightWitness ==
    \E c \in Classes :
        /\ scanning[c] /\ inflight[c] = 1
        /\ Len(queue[c]) > 0
        /\ timer[c] = 0 /\ firstTime[c] = 0

\* The wake-up scheduleFlush asks for, sinceStart after the batch start.
DueAfter(isVideo, sinceStart) ==
    Min(MAX_WAIT(isVideo) - sinceStart, INTERVAL(isVideo))

\* A flush of jobs that began to wait on an empty queue with no scan in flight.
FreshFlush(c) == flushed[c].n > 0 /\ ~flushed[c].busy

WaitCap ==
    \A c \in Classes :
        /\ (~scanning[c] /\ Len(queue[c]) > 0) =>
              /\ firstTime[c] # 0
              /\ timer[c] # 0
              /\ timer[c] <= firstTime[c] + MAX_WAIT(IsVideo(c))
              /\ now <= firstTime[c] + MAX_WAIT(IsVideo(c))
              /\ ~cycle[c].busy => firstTime[c] = cycle[c].start
        /\ FreshFlush(c) => flushed[c].at - flushed[c].start <= MAX_WAIT(IsVideo(c))

\* Enqueues kept re-arming the timer and the flush came at maxWait.
WaitCapWitness ==
    \E c \in Classes :
        /\ FreshFlush(c)
        /\ flushed[c].at - flushed[c].start = MAX_WAIT(IsVideo(c))
        /\ flushed[c].had < BATCH_SIZE(IsVideo(c))
        /\ flushed[c].had > 2
        /\ flushed[c].at - flushed[c].lastEnq < INTERVAL(IsVideo(c))

\* C4: an enqueue that brings the queue to maxBatch while no scan is in flight
\* flushes in the same step exactly the maxBatch oldest jobs; while the scan is
\* in flight the queue only grows and no batch is flushed; when the scan ends
\* with jobs queued, a wake-up is armed or the next batch is flushed from the
\* head of the queue.
SizeTriggerStep(c) ==
    /\ (nEnq'[c] = nEnq[c] + 1 /\ ~scanning[c]
          /\ Len(queue[c]) + 1 = BATCH_SIZE(IsVideo(c))) =>
            /\ scanning'[c] /\ inflight'[c] = 1
            /\ pass'[c].pc \in {"vision", "modal"}
            /\ Len(pass'[c].batch) = BATCH_SIZE(IsVideo(c))
            /\ SubSeq(pass'[c].batch, 1, Len(queue[c])) = queue[c]
            /\ pass'[c].batch[Len(pass'[c].batch)].seq = nEnq'[c]
            /\ queue'[c] = <<>>
    /\ (scanning[c] /\ flushed'[c].n = flushed[c].n) =>
            /\ IsPrefix(queue[c], queue'[c])
            /\ pass'[c].batch = pass[c].batch
    /\ (scanning[c] /\ ~scanning'[c] /\ Len(queue[c]) > 0) =>
            timer'[c] # 0 /\ queue'[c] = queue[c]
    /\ flushed'[c].n # flushed[c].n =>
            /\ flushed'[c].n = flushed[c].n + 1
            /\ scanning'[c] /\ inflight'[c] = 1
            /\ pass'[c].batch \o queue'[c] = queue[c]
                 \/ (~scanning[c] /\ nEnq'[c] = nEnq[c] + 1
                       /\ Len(pass'[c].batch \o queue'[c]) = Len(queue[c]) + 1
                       /\ IsPrefix(queue[c], pass'[c].batch \o queue'[c]))

SizeTrigger == [][\A c \in Classes : SizeTriggerStep(c)]_vars

\* A batch of maxBatch jobs was flushed by the enqueue of its last job, and a
\* job enqueued afterwards waits while the scan is in flight.
SizeTriggerWitness ==
    \E c \in Classes :
        /\ scanning[c]
        /\ FreshFlush(c)
        /\ flushed[c].size = BATCH_SIZE(IsVideo(c))
        /\ flushed[c].had = BATCH_SIZE(IsVideo(c))
        /\ flushed[c].at = flushed[c].lastEnq
        /\ Len(queue[c]) > 0
\* The verdicts of a scan invocation are in, for the jobs of its batch.
Reconciling(c) == pass[c].pc \in {"loop", "mark", "resolved"}
Finished(c) == pass[c].pc = "resolved"
InBatch(c) == BatchIds(pass[c].batch)

\* C5 (as stated): when a scan for which the backend returned a verdict for
\* every job of the batch has finished, every job of the batch is marked
\* complete, or an audit error row names it, or a completion-marking error
\* row was recorded.
EveryJobAccounted ==
    \A c \in Classes :
        (Finished(c) /\ \A j \in InBatch(c) : pass[c].results[j].present) =>
            \A j \in InBatch(c) :
                \/ status[j] = "complete"
                \/ pass[c].tally["error"][j] > 0
                \/ pass[c].markError > 0

\* C6: a job whose verdict is is_nsfw = true gets no createMediaItem call and
\* no move to a permanent bucket, and no media row or permanent object exists
\* for it.
NsfwNeverCommitted ==
    \A c \in Classes :
        Reconciling(c) =>
            \A j \in InBatch(c) :
                pass[c].results[j].is_nsfw = "true" =>
                    /\ pass[c].tally["record"][j] = 0
                    /\ pass[c].tally["commitMove"][j] = 0
                    /\ pass[c].tally["commitMoveFailed"][j] = 0
                    /\ media[j] = 0
                    /\ "final" \notin objAt[j]

\* An NSFW job went through the quarantine path and was marked complete.
NsfwNeverCommittedWitness ==
    \E c \in Classes :
        /\ Finished(c)
        /\ \E j \in InBatch(c) :
              /\ pass[c].results[j].is_nsfw = "true"
              /\ pass[c].tally["quarantineMove"][j] = 1
              /\ objAt[j] = {"quarantine"}
              /\ status[j] = "complete"

\* C7: on the commit path a job whose move failed gets no media record in that
\* pass and is not in the completed list; a record is only created after a move.
FailedMoveNoRecord ==
    \A c \in Classes :
        Reconciling(c) =>
            \A j \in InBatch(c) :
                /\ pass[c].tally["commitMoveFailed"][j] > 0 =>
                      /\ pass[c].tally["record"][j] = 0
                      /\ pass[c].tally["commitMove"][j] = 0
                      /\ j \notin BatchIds(pass[c].completedJobs)
                      /\ j \notin pass[c].marked
                /\ pass[c].tally["record"][j] <= pass[c].tally["commitMove"][j]

\* The move of a safe job failed; the pass finished and left the job pending
\* with an audit row.
FailedMoveNoRecordWitness ==
    \E c \in Classes :
        /\ Finished(c)
        /\ \E j \in InBatch(c) :
              /\ pass[c].results[j].is_nsfw = "false"
              /\ pass[c].results[j].dims
              /\ pass[c].tally["commitMoveFailed"][j] = 1
              /\ pass[c].tally["error"][j] = 1
              /\ media[j] = 0
              /\ status[j] = "pending"

MissedIds == {recovery.missedJobs[i] : i \in DOMAIN recovery.missedJobs}
Queued(j) == \E c \in Classes : j \in BatchIds(queue[c]) \cup InBatch(c)

RECURSIVE SumOf(_, _)
SumOf(f, S) == IF S = {} THEN 0
               ELSE LET x == CHOOSE y \in S : TRUE IN f[x] + SumOf(f, S \ {x})

RecoveryStateOk ==
    /\ \A j \in JobIds : recovery.readmitted[j] <= 1
    /\ \A j \in JobIds : recovery.readmitted[j] = 1 => j \in MissedIds
    /\ \A j \in recovery.failed : j \in MissedIds /\ recovery.readmitted[j] = 0
    /\ \A j \in recovery.failed : nUploads = 0 => status[j] = "pending" /\ ~Queued(j)
    /\ SumOf(nEnq, Classes)
         = SumOf(recovery.readmitted, JobIds) + nUploads - SumOf(uploads, JobIds)
    /\ recovery.pc = "done" =>
          \A j \in MissedIds : j \in recovery.failed \/ recovery.readmitted[j] = 1

RecoveryStepOk ==
    recovery' # recovery =>
        /\ status' = status
        /\ recovery'.failed # recovery.failed => nEnq' = nEnq /\ queue' = queue
        /\ recovery'.readmitted # recovery.readmitted =>
              \E j \in MissedIds :
                 /\ recovery'.readmitted = [recovery.readmitted EXCEPT ![j] = 1]
                 /\ nEnq'[classOf(j)] = nEnq[classOf(j)] + 1
                 /\ Queued(j)'

\* C8: recovery calls queueMediaJob at most once per job, and every enqueue is
\* a call of queueMediaJob by recovery or by upload-complete; when the loop is
\* over, each job it fetched was enqueued exactly once or its URL failed, and
\* no other job was enqueued by it; a step in which a URL fails enqueues
\* nothing, no step of recovery changes a status, and a job whose URL failed
\* is neither queued nor other than pending unless an upload was confirmed.
RecoveryReadmitsOnce == []RecoveryStateOk /\ [][RecoveryStepOk]_vars

\* The URL of the first fetched job failed and the job after it was enqueued.
RecoveryReadmitsOnceWitness ==
    /\ recovery.pc = "done"
    /\ Len(recovery.missedJobs) = 2
    /\ recovery.missedJobs[1] \in recovery.failed
    /\ status[recovery.missedJobs[1]] = "pending"
    /\ ~Queued(recovery.missedJobs[1])
    /\ recovery.readmitted[recovery.missedJobs[2]] = 1

\* No collaborator failed and the backend's verdicts are whole: is_nsfw is a
\* boolean, no per-image error, and the remote engine gave the dimensions
\* (and the duration of a video).
CleanPass(c) ==
    /\ Finished(c)
    /\ ~pass[c].envFailed
    /\ \A j \in InBatch(c) :
          /\ hasVerdict(pass[c].results[j])
          /\ ~pass[c].results[j].error
          /\ pass[c].backend = "modal" => mediaItemValid(j, pass[c].results[j])

\* C9 (as stated): after a scan with a valid verdict for every job and no
\* failing side effect, whichever backend was selected, every safe job has one
\* commit move and one media record, every NSFW job one quarantine move, one
\* blocklist insert and one restriction, and every job is marked complete.
HappyPathCounts ==
    \A c \in Classes :
        CleanPass(c) =>
            \A j \in InBatch(c) :
                /\ pass[c].results[j].is_nsfw = "false" =>
                      /\ pass[c].tally["commitMove"][j] = 1
                      /\ pass[c].tally["record"][j] = 1
                /\ pass[c].results[j].is_nsfw = "true" =>
                      /\ pass[c].tally["quarantineMove"][j] = 1
                      /\ pass[c].tally["block"][j] = 1
                      /\ pass[c].tally["restrict"][j] = 1
                /\ status[j] = "complete"

\* C10 (as stated): after the selected backend failed on every attempt (and the
\* audit insert, if any, went through) nothing was moved or written for the
\* batch, exactly one batch-failure audit row was recorded and every job of
\* the batch is still pending.
BackendFailureIsolated ==
    \A c \in Classes :
        (pass[c].pc = "rejected" /\ pass[c].faults = 0) =>
            /\ pass[c].tally = NoTally
            /\ pass[c].marked = {}
            /\ \A j \in InBatch(c) :
                  status[j] = "pending" /\ media[j] = 0 /\ objAt[j] = {"staging"}
            /\ pass[c].failAudit = 1
\* C11 (as stated): the selected backend is invoked at most MAX_RETRIES times
\* per batch, a failed attempt is retried (the invocation gives up only after
\* MAX_RETRIES failed attempts), and the first valid response ends the loop.
BoundedRetry ==
    \A c \in Classes :
        /\ pass[c].calls <= MAX_RETRIES
        /\ pass[c].pc = "rejected" => pass[c].calls = MAX_RETRIES
        /\ Reconciling(c) => pass[c].calls = pass[c].attempt + 1

\* The loop of scanMediaJobs has gone past job j of the batch.
Position(c, j) == CHOOSE i \in DOMAIN pass[c].batch : pass[c].batch[i].id = j
Processed(c, j) == Reconciling(c) /\ Position(c, j) < pass[c].idx
Untouched(c, j) ==
    /\ \A o \in Ops \ {"error"} : pass[c].tally[o][j] = 0
    /\ objAt[j] = {"staging"}
    /\ media[j] = 0
    /\ j \notin BatchIds(pass[c].completedJobs)
    /\ status[j] = "pending"

\* C12 (as stated): for a job whose verdict is absent or whose is_nsfw is not
\* a boolean nothing is moved or written in the pass, the job is not in the
\* completed set, its status is unchanged, and once the loop is past it an
\* audit error row naming it is recorded.
NoVerdictNoAction ==
    \A c \in Classes :
        Reconciling(c) =>
            \A j \in InBatch(c) :
                ~hasVerdict(pass[c].results[j]) =>
                    /\ Untouched(c, j)
                    /\ Processed(c, j) => pass[c].tally["error"][j] = 1

\* C13 (as stated): a job for which the backend produced no moderation
\* decision (no valid verdict, or a per-image error of the image backend) never
\* enters the commit path: no move to a permanent bucket is made or tried and
\* no media record is created for it.
NoDecisionNoCommit ==
    \A c \in Classes :
        Reconciling(c) =>
            \A j \in InBatch(c) :
                (~hasVerdict(pass[c].results[j]) \/ pass[c].results[j].error) =>
                    /\ pass[c].tally["commitMove"][j] = 0
                    /\ pass[c].tally["commitMoveFailed"][j] = 0
                    /\ pass[c].tally["record"][j] = 0
                    /\ "final" \notin objAt[j]
Completed(c) == BatchIds(pass[c].completedJobs)

\* C14: when a scan that got results has finished, the loop went past every
\* job of the batch whatever failed for the others: every NSFW job is in the
\* completed list, for every safe job the commit move was tried and the job
\* is in the completed list if its record was created; and the completed jobs
\* are all marked complete unless the completion update itself failed.
SiblingIsolation ==
    \A c \in Classes :
        Finished(c) =>
            /\ pass[c].idx = Len(pass[c].batch) + 1
            /\ \A j \in InBatch(c) :
                  hasVerdict(pass[c].results[j]) =>
                      /\ pass[c].results[j].is_nsfw = "true" => j \in Completed(c)
                      /\ pass[c].results[j].is_nsfw = "false" =>
                            /\ pass[c].tally["commitMove"][j]
                                 + pass[c].tally["commitMoveFailed"][j] = 1
                            /\ pass[c].tally["record"][j] = 1 => j \in Completed(c)
            /\ pass[c].marked = Completed(c)
                 \/ (pass[c].marked = {} /\ pass[c].envFailed)
            /\ \A j \in pass[c].marked : status[j] = "complete"

\* The move of a job failed; a later job of the batch was reconciled and is
\* marked complete.
SiblingIsolationWitness ==
    \E c \in Classes :
        /\ Finished(c)
        /\ \E j, k \in InBatch(c) :
              /\ Position(c, j) < Position(c, k)
              /\ pass[c].tally["commitMoveFailed"][j] = 1
              /\ status[j] = "pending"
              /\ status[k] = "complete"
Running(p) == p.pc \in {"vision", "modal", "loop", "mark"}
Settled(p) == p.pc \in {"resolved", "rejected"}

\* C15: while a scan of a class is in flight no step (a timer wake-up, an
\* enqueue that reaches a threshold) starts a second scan or takes a job off
\* the queue; the step in which the scan settles, resolved or rejected, clears
\* the flag and, if jobs are queued, arms a wake-up or flushes the head of the
\* queue at once.
DeferredFlushStep(c) ==
    /\ scanning[c] <=> Running(pass[c])
    /\ (Running(pass[c]) /\ Running(pass'[c]) /\ flushed'[c].n = flushed[c].n) =>
          /\ pass'[c].batch = pass[c].batch
          /\ inflight'[c] = inflight[c]
          /\ scanning'[c]
          /\ IsPrefix(queue[c], queue'[c])
    /\ (Running(pass[c]) /\ Settled(pass'[c])) =>
          /\ ~scanning'[c]
          /\ inflight'[c] = 0
          /\ queue'[c] = queue[c]
          /\ Len(queue[c]) > 0 => timer'[c] > now /\ firstTime'[c] # 0
    /\ (Running(pass[c]) /\ flushed'[c].n # flushed[c].n) =>
          /\ Len(queue[c]) > 0
          /\ scanning'[c] /\ inflight'[c] = 1
          /\ pass'[c].batch \o queue'[c] = queue[c]

DeferredFlush == [][\A c \in Classes : DeferredFlushStep(c)]_vars

\* A scan failed while jobs were queued behind it, a wake-up having come and
\* gone during the scan; the flag is cleared and a wake-up is armed.
DeferredFlushWitness ==
    \E c \in Classes :
        /\ pass[c].pc = "rejected"
        /\ ~scanning[c]
        /\ Len(queue[c]) > 0
        /\ cycle[c].busy
        /\ cycle[c].lastEnq < now
        /\ firstTime[c] = now
        /\ timer[c] > now
\* The invocation p is at its completion-marking step and job j went through
\* the reconciliation loop to its end: on the quarantine path, or on the
\* commit path with the object moved and the media row written.
FinishedReconciliation(p, j) ==
    /\ p.pc = "mark"
    /\ j \in BatchIds(p.batch)
    /\ j \in BatchIds(p.completedJobs)
    /\ hasVerdict(p.results[j])
    /\ \/ p.results[j].is_nsfw = "true"
       \/ /\ p.results[j].is_nsfw = "false"
          /\ p.tally["commitMove"][j] >= 1
          /\ p.tally["record"][j] >= 1
          /\ media[j] >= 1
          /\ "final" \in objAt[j]

\* C16: a step that turns the status of a job into complete is the
\* completion-marking step of a scan in which the job had a valid verdict and
\* finished its reconciliation; no step of the upload-complete handler, of the
\* recovery, of the queue or of the reconciliation loop does it.
CompleteOnlyByMarkingStep(j) ==
    (status'[j] = "complete" /\ status[j] # "complete") =>
        /\ \E c \in Classes :
              /\ FinishedReconciliation(pass[c], j)
              /\ inflight'[c] = inflight[c] - 1 \/ flushed'[c].n = flushed[c].n + 1
        /\ uploads' = uploads
        /\ recovery' = recovery
        /\ now' = now

CompleteOnlyByMarking == [][\A j \in JobIds : CompleteOnlyByMarkingStep(j)]_vars

\* A scan moved the object of a job to the final bucket, wrote its media row
\* and then marked the job complete.
CompleteOnlyByMarkingWitness ==
    \E c \in Classes : \E j \in InBatch(c) :
        /\ Finished(c)
        /\ j \in pass[c].marked /\ status[j] = "complete"
        /\ pass[c].results[j].is_nsfw = "false"
        /\ pass[c].tally["commitMove"][j] = 1 /\ pass[c].tally["record"][j] = 1
        /\ media[j] = 1 /\ objAt[j] = {"final"}
\* What a call of queueMediaJob for class c may change: the queue of c grows
\* by one job of class c at its end; either nothing is flushed (the scan in
\* flight, if any, goes on as it was) or the head of that queue is handed to
\* a scan that has just been called; the other class, the tables, the object
\* storage and the clock are left alone.
EnqueueStepOk(c) ==
    nEnq'[c] = nEnq[c] + 1 =>
        /\ \A o \in Classes \ {c} :
              /\ queue'[o] = queue[o] /\ pass'[o] = pass[o]
              /\ scanning'[o] = scanning[o] /\ timer'[o] = timer[o]
              /\ firstTime'[o] = firstTime[o] /\ nEnq'[o] = nEnq[o]
        /\ UNCHANGED <<now, dbVars>>
        /\ \/ /\ flushed'[c] = flushed[c]
              /\ pass'[c] = pass[c] /\ scanning'[c] = scanning[c]
              /\ Len(queue'[c]) = Len(queue[c]) + 1
              /\ IsPrefix(queue[c], queue'[c])
              /\ classOf(queue'[c][Len(queue'[c])].id) = c
              /\ timer'[c] > now \/ scanning[c]
           \/ /\ flushed'[c].n = flushed[c].n + 1
              /\ ~scanning[c] /\ scanning'[c]
              /\ pass'[c].pc \in {"vision", "modal"} /\ pass'[c].calls = 0
              /\ Len(pass'[c].batch) + Len(queue'[c]) = Len(queue[c]) + 1
              /\ IsPrefix(queue[c], pass'[c].batch \o queue'[c])
              /\ classOf(pass'[c].batch[Len(pass'[c].batch)].id) = c
              /\ timer'[c] = 0

\* In this state a call of queueMediaJob with job j returns, an image or a
\* video, a scan of its class in flight or not, and the job is then the last
\* of its class's queue or of the batch the call flushed.
EnqueueAccepts(j) ==
    LET c == classOf(j)
        m == queueMediaJob(j, Mem)
        held == IF m.flushed[c].n = flushed[c].n THEN m.queue[c]
                ELSE m.pass[c].batch \o m.queue[c]
    IN  /\ m.nEnq[c] = nEnq[c] + 1
        /\ Len(held) > 0
        /\ held[Len(held)] = [id |-> j, seq |-> nEnq[c] + 1]
        /\ scanning[c] => m.pass[c] = pass[c] /\ m.queue[c] = Append(queue[c], held[Len(held)])

\* C17: queueMediaJob can be called in every state, a scan of the class in
\* flight or not, and the call does nothing but append the job to the queue of
\* its class and arm, re-arm or trigger the flush of that class: it waits for
\* no scan and touches no table.
EnqueueNeverBlocks ==
    /\ [](\A j \in JobIds : EnqueueAccepts(j))
    /\ [][\A c \in Classes : EnqueueStepOk(c)]_vars

\* A job was handed in while a scan of its class was in flight: it waits in
\* the queue, a wake-up is armed, and the scan is still at its backend call.
EnqueueNeverBlocksWitness ==
    \E c \in Classes :
        /\ scanning[c] /\ pass[c].pc \in {"vision", "modal"}
        /\ flushed[c].had = flushed[c].size
        /\ Len(queue[c]) > 0
        /\ queue[c][Len(queue[c])].seq = nEnq[c]
        /\ timer[c] > now
StatusRank(st) == CASE st = "awaiting_upload" -> 0
                    [] st = "pending" -> 1
                    [] st = "complete" -> 2

\* C18 (as stated): no step of the upload-complete handler, of a scan or of
\* the recovery moves the status of a job backwards along awaiting_upload,
\* pending, complete.
StatusMovesForward ==
    [][\A j \in JobIds : StatusRank(status'[j]) >= StatusRank(status[j])]_vars
InQueue(j) == \E c \in Classes : j \in BatchIds(queue[c])
BackendFailed(j) == j \in FailedBatchJobs /\ status[j] = "pending"

InvalidTypeRejected ==
    \A c \in Classes :
        (~recognized(pass[c].type) /\ pass[c].pc # "idle") =>
            /\ pass[c].pc \in {"typecheck", "rejected"}
            /\ pass[c].calls = 0
            /\ pass[c].backend = "none"
            /\ pass[c].idx = 0
            /\ pass[c].tally = NoTally
            /\ pass[c].completedJobs = <<>>
            /\ pass[c].marked = {}
            /\ \A j \in InBatch(c) :
                  status[j] = "pending" /\ objAt[j] = {"staging"} /\ media[j] = 0
            /\ pass[c].pc = "rejected" => pass[c].failAudit = 1
Rejected(answer) == answer \in {"banned", "blocked", "error"}

\* What a request-upload step may do for job j once the user has a
\* restriction row or the hash a blocklist row: answer with a refusal and
\* create no job.
DenyReuploadStep(j) ==
    (status[j] = "none" /\ (bans[user_id(j)] > 0 \/ blocked[sha256_hash(j)] > 0)) =>
        /\ status'[j] = "none"
        /\ requests'[j] # requests[j] => Rejected(requests'[j])

\* C21: a restriction or blocklist row written for a quarantined job is
\* there from then on, and from then on no request-upload by that user or
\* with that hash creates a media job: each is answered with a refusal.
DenyReupload ==
    /\ [](\A c \in Classes : \A k \in InBatch(c) :
            /\ pass[c].tally["restrict"][k] > 0 => bans[user_id(k)] > 0
            /\ pass[c].tally["block"][k] > 0 => blocked[sha256_hash(k)] > 0)
    /\ [][/\ \A u \in DOMAIN bans : bans'[u] >= bans[u]
          /\ \A h \in DOMAIN blocked : blocked'[h] >= blocked[h]
          /\ \A j \in JobIds : DenyReuploadStep(j)]_vars

\* Job k was quarantined with both rows written; a later request of the same
\* user was refused for the restriction and one of another user with the same
\* hash for the blocklist.
DenyReuploadWitness ==
    \E c \in Classes : \E k \in InBatch(c) : \E i, j \in JobIds :
        /\ pass[c].tally["restrict"][k] = 1 /\ pass[c].tally["block"][k] = 1
        /\ user_id(i) = user_id(k) /\ requests[i] = "banned" /\ status[i] = "none"
        /\ user_id(j) # user_id(k) /\ sha256_hash(j) = sha256_hash(k)
        /\ requests[j] = "blocked" /\ status[j] = "none"
\* Job j of the batch of c went through the loop body.
Handled(c, j) == Reconciling(c) /\ j \in InBatch(c) /\ Position(c, j) < pass[c].idx
Nsfw(c, j) == hasVerdict(pass[c].results[j]) /\ pass[c].results[j].is_nsfw = "true"
Safe(c, j) == hasVerdict(pass[c].results[j]) /\ pass[c].results[j].is_nsfw = "false"

\* C22: for a job with an NSFW verdict the blocklist insert, the user
\* restriction, the unsafe-content audit event and the move to quarantine
\* are each called once, in that order, whichever of them fail, and the job
\* is in the completed list.
QuarantineStepsIndependent ==
    \A c \in Classes : \A j \in JobIds :
        (Handled(c, j) /\ Nsfw(c, j)) =>
            /\ pass[c].steps[j] = <<"addBlockedHash", "restrictUserMediaUploads",
                                    "logSystemEvent", "moveObjectWithinBuckets">>
            /\ pass[c].tally["block"][j] <= 1
            /\ pass[c].tally["restrict"][j] <= 1
            /\ pass[c].tally["quarantineMove"][j] <= 1
            /\ j \in BatchIds(pass[c].completedJobs)

\* All four calls failed for a job (no blocklist row, no restriction, no
\* audit row, the object still in staging) and the job was marked complete.
QuarantineStepsIndependentWitness ==
    \E c \in Classes : \E j \in InBatch(c) :
        /\ Finished(c) /\ Nsfw(c, j)
        /\ pass[c].faults = 4
        /\ pass[c].tally["block"][j] = 0 /\ blocked[sha256_hash(j)] = 0
        /\ pass[c].tally["restrict"][j] = 0 /\ bans[user_id(j)] = 0
        /\ pass[c].tally["quarantineMove"][j] = 0 /\ "quarantine" \notin objAt[j]
        /\ j \in pass[c].marked /\ status[j] = "complete"
\* C23 (as stated): a job with a safe verdict is in the completed list if and
\* only if its move and its metadata write both succeeded; when the write
\* fails after the move, the job stays pending, one audit error row names it
\* and the object stays in the destination bucket.
CommitNeedsBoth ==
    \A c \in Classes : \A j \in JobIds :
        (Handled(c, j) /\ Safe(c, j)) =>
            /\ j \in BatchIds(pass[c].completedJobs)
                  <=> (pass[c].tally["commitMove"][j] = 1 /\ pass[c].tally["record"][j] = 1)
            /\ (pass[c].tally["commitMove"][j] = 1 /\ pass[c].tally["record"][j] = 0) =>
                  /\ status[j] = "pending"
                  /\ media[j] = 0
                  /\ objAt[j] = {"final"}
                  /\ pass[c].tally["error"][j] = 1
\* The completion-marking update of the scan of c failed.
MarkFailed(c) == Finished(c) /\ pass[c].completedJobs # <<>> /\ pass[c].marked = {}

\* The step is the completion marking of the scan of c.
MarkingStep(c) == pass[c].pc = "mark" /\ pass'[c] # pass[c]

\* C24 (as stated): when the completion-marking update fails one audit error
\* row is written, the jobs of the completed list stay pending and the scan
\* resolves; the marking step, failed or not, leaves the media rows, the
\* objects, the blocklist and the restrictions as the loop left them.
MarkFailureKeepsEffects ==
    /\ [](\A c \in Classes : MarkFailed(c) =>
            /\ pass[c].markError = 1
            /\ \A j \in Completed(c) : status[j] = "pending")
    /\ [][\A c \in Classes : MarkingStep(c) =>
            /\ UNCHANGED <<media, objAt, blocked, bans>>
            /\ pass'[c].pc = "resolved" \/ flushed'[c].n # flushed[c].n
            /\ \A j \in JobIds : status'[j] # status[j] =>
                  j \in Completed(c) /\ status'[j] = "complete"]_vars
\* The jobs that were handed to a scan at least once or are about to be.
Confirmed(j) == status[j] # "awaiting_upload"

\* C25 (as stated): processing a job again after a restart leaves what one
\* successful pass leaves: at most one media row for the job, at most one
\* blocklist row and one restriction for each job with that hash or user, and
\* a job whose media row is written is complete once a scan of it has
\* finished.
RetryIdempotent ==
    /\ \A j \in JobIds : media[j] <= 1
    /\ \A u \in DOMAIN bans :
          bans[u] <= Cardinality({j \in JobIds : Confirmed(j) /\ user_id(j) = u})
    /\ \A h \in DOMAIN blocked :
          blocked[h] <= Cardinality({j \in JobIds : Confirmed(j) /\ sha256_hash(j) = h})
    /\ \A c \in Classes : \A j \in InBatch(c) :
          (Finished(c) /\ media[j] = 1) => status[j] = "complete"
\* The job objects of s are in the order of their seq, the order in which
\* queueMediaJob was handed them.
InEnqueueOrder(s) == \A i, k \in DOMAIN s : i < k => s[i].seq < s[k].seq

\* C26: the list a scan hands to the completion marking holds jobs of its
\* batch only, each once, in the order they have in the batch, which is the
\* order in which they were enqueued.
CompletionListOrdered ==
    \A c \in Classes :
        /\ InEnqueueOrder(pass[c].batch)
        /\ InEnqueueOrder(pass[c].completedJobs)
        /\ \A i \in DOMAIN pass[c].completedJobs :
              \E k \in DOMAIN pass[c].batch : pass[c].batch[k] = pass[c].completedJobs[i]
        /\ Finished(c) =>
              pass[c].marked \in {{}, {pass[c].completedJobs[i].id :
                                          i \in DOMAIN pass[c].completedJobs}}

\* A batch of three jobs of which the first and the third were marked
\* complete and the second was not.
CompletionListOrderedWitness ==
    \E c \in Classes :
        /\ Finished(c)
        /\ Len(pass[c].batch) = 3
        /\ pass[c].completedJobs = <<pass[c].batch[1], pass[c].batch[3]>>
        /\ pass[c].marked = {pass[c].batch[1].id, pass[c].batch[3].id}
\* The event loop holds, for each class, exactly the timeout its handle names.
OneTimer(c) ==
    /\ Cardinality(timers[c]) <= 1
    /\ timers[c] = IF timer[c] = 0 THEN {} ELSE {timer[c]}

\* A step that arms a wake-up of class c.
Arms(c) == timer'[c] # 0 /\ (timer'[c] # timer[c] \/ nEnq'[c] # nEnq[c])

\* C27: each class has at most one pending flush timeout; a step that arms a
\* wake-up of a class leaves that wake-up as the only pending one of the class;
\* and one wake-up starts at most one flush.
Debounce ==
    /\ [](\A c \in Classes : OneTimer(c))
    /\ [][\A c \in Classes :
            /\ Arms(c) => timers'[c] = {timer'[c]}
            /\ TimerFire(c) => /\ flushed'[c].n <= flushed[c].n + 1
                               /\ timers'[c] = {}]_vars

\* A wake-up was pending, an enqueue re-armed it for a later time, and the
\* earlier one is gone.
DebounceWitness ==
    \E c \in Classes :
        /\ cycle[c].lastEnq > cycle[c].start
        /\ Len(queue[c]) >= 2
        /\ timers[c] = {timer[c]}
        /\ timer[c] = cycle[c].lastEnq + INTERVAL(IsVideo(c))
        /\ timer[c] > cycle[c].start + INTERVAL(IsVideo(c))
\* The queue entries of class c as they were when the batch was cut: the
\* queue before the step, with the entry the step itself pushed, if any.
QueueAtFlush(c) ==
    IF nEnq'[c] = nEnq[c] THEN {queue[c]}
    ELSE {Append(queue[c], [id |-> j, seq |-> nEnq'[c]]) : j \in JobIds}

FlushStepOk(c) ==
    flushed'[c].n # flushed[c].n =>
        /\ Len(pass'[c].batch) \in 1..BATCH_SIZE(IsVideo(c))
        /\ pass'[c].type = c
        /\ \A i \in DOMAIN pass'[c].batch : classOf(pass'[c].batch[i].id) = c
        /\ pass'[c].batch \o queue'[c] \in QueueAtFlush(c)
        /\ InEnqueueOrder(pass'[c].batch \o queue'[c])

OldestEnqueueTime(c) == cycle[c].start

MarkerIsOldest(c) ==
    firstTime[c] # 0 => Len(queue[c]) > 0 /\ firstTime[c] = OldestEnqueueTime(c)

MarkerSetByEnqueue(c) ==
    firstTime[c] = 0 /\ firstTime'[c] # 0 => nEnq'[c] = nEnq[c] + 1

MarkerUnsetByFlush(c) ==
    flushed'[c].n # flushed[c].n => firstTime'[c] = 0

\* C29: whenever the batch-start marker of a class is set, it is the enqueue
\* time of the oldest job waiting in the queue of the class; a step sets it
\* only by an enqueue, and a step that flushes leaves it unset.
BatchStartMarker ==
    /\ [](\A c \in Classes : flushed[c].had <= BATCH_SIZE(IsVideo(c)) => MarkerIsOldest(c))
    /\ [][\A c \in Classes : MarkerSetByEnqueue(c) /\ MarkerUnsetByFlush(c)]_vars
\* The module state of queue.js that belongs to class c, and its latest scan.
ClassState(c) ==
    <<queue[c], scanning[c], timer[c], timers[c], firstTime[c], pass[c], inflight[c]>>

\* A step in which class c is enqueued to, woken up, flushed or its scan settles.
ClassOperation(c) ==
    \/ nEnq'[c] # nEnq[c]
    \/ timers'[c] # timers[c]
    \/ flushed'[c].n # flushed[c].n
    \/ inflight'[c] # inflight[c]

\* The step in which the recovery routine leaves its loop and runs the lines
\* after it, which call scheduleFlush for both classes.
RecoveryLeavesLoop == recovery.pc # "done" /\ recovery'.pc = "done"

ClassFrame(c) ==
    ClassOperation(c) => \A o \in Classes \ {c} : ClassState(o)' = ClassState(o)

\* A wake-up of class c that finds jobs queued and no scan of c in flight
\* flushes in that very step, whatever the other class is doing.
WakeUpFlushes(c) ==
    (\E d \in timers[c] : d <= now /\ timers'[c] = timers[c] \ {d})
      /\ nEnq'[c] = nEnq[c] /\ ~scanning[c] /\ Len(queue[c]) > 0
    => flushed'[c].n = flushed[c].n + 1 /\ scanning'[c] /\ queue'[c] = <<>>

\* C30: an enqueue, a wake-up, a flush or a scan completion of one class
\* leaves the queue, the scanning flag, the timeout, the batch-start marker
\* and the scan of the other class as they were, and a wake-up of a class
\* flushes at once even while a scan of the other class is in flight.
ClassesIndependent ==
    [][\A c \in Classes :
          /\ RecoveryLeavesLoop \/ ClassFrame(c)
          /\ WakeUpFlushes(c)]_vars

\* A class was flushed while the scan of the other class was in flight.
ClassesIndependentWitness ==
    \E c \in Classes : \E o \in Classes \ {c} :
        /\ scanning[c] /\ scanning[o]
        /\ pass[o].pc \in {"vision", "modal"}
        /\ flushed[c].n > 0 /\ flushed[o].n > 0
        /\ flushed[c].at > flushed[o].at
\* The invocation of class c has chosen its backend.
Called(c) == pass[c].pc \notin {"idle", "typecheck"}

SmallImageBatch(c) == pass[c].type = "images" /\ Len(pass[c].batch) <= 16

\* The loop body gives the same tables, objects and tallies for job, whichever
\* backend the verdicts came from.
SameReconciliation(c) ==
    LET p == pass[c]
        o == [p EXCEPT !.backend = IF @ = "vision" THEN "modal" ELSE "vision"]
        job == p.batch[p.idx]
    IN  \A e \in EnvsOf(calledBy(p.results[job.id]), 1) :
            /\ reconcile(job, <<Db, o>>, e)[1] = reconcile(job, <<Db, p>>, e)[1]
            /\ reconcile(job, <<Db, o>>, e)[2]
                 = [reconcile(job, <<Db, p>>, e)[2] EXCEPT !.backend = o.backend]

\* C31: scanMediaJobs awaits safeSearchFromUrls exactly when the type is
\* images and the batch has at most 16 jobs, and the remote engine for every
\* other batch; a backend is called only while it is the one selected; and
\* the loop body does the same to a job on both paths.
BackendSelection ==
    /\ [](\A c \in Classes :
            /\ Called(c) => (pass[c].backend = "vision" <=> SmallImageBatch(c))
            /\ Called(c) => (pass[c].backend = "modal" <=> ~SmallImageBatch(c))
            /\ pass[c].pc \in {"vision", "modal"} => pass[c].pc = pass[c].backend
            /\ pass[c].pc = "loop" /\ pass[c].idx <= Len(pass[c].batch)
                  => SameReconciliation(c))
    /\ [][\A c \in Classes :
            pass'[c].calls # pass[c].calls =>
                /\ pass[c].pc = pass[c].backend
                /\ pass'[c].pc = "loop" =>
                      \A j \in BatchIds(pass[c].batch) :
                          pass'[c].results[j] \in
                             IF SmallImageBatch(c) THEN safeSearchVerdicts
                             ELSE remoteVerdicts]_vars

\* An image batch of 17 went to the remote engine and its jobs are being
\* reconciled.
BackendSelectionWitness ==
    /\ pass["images"].backend = "modal" /\ Len(pass["images"].batch) = 17
    /\ pass["images"].pc = "loop" /\ pass["images"].idx > 1
    /\ pass["images"].calls >= 1
\* The buckets of the static mapping, written out.
MappedBucket(l) ==
    IF l = "post" THEN "posts-media"
    ELSE IF l = "opportunity" THEN "opportunities-media"
    ELSE IF l = "chat_media" THEN "chats-media"
    ELSE IF l \in {"profile_picture", "profile_cover"} THEN "users-media"
    ELSE IF l \in {"license_certification", "education", "project", "award_achievement",
                   "work_experience", "volunteer_experience", "testimonial",
                   "publication"} THEN "talent-profiles-media"
    ELSE "default-bucket"

\* C32: the destination bucket is the mapping's bucket, or default-bucket for
\* a type that is unmapped or absent; the destination key is the original key
\* for post, opportunity and an absent type, and the type, a slash and the
\* original key otherwise; a safe object is moved to that bucket and key, an
\* NSFW object to the quarantine bucket under its original key.
DestinationComputed ==
    target.pc \in {"destination", "move"} =>
        /\ target.toBucket = MappedBucket(target.linked_to_type)
        /\ target.toKey = IF target.linked_to_type \in {"post", "opportunity", "undefined", ""}
                          THEN target.file_name
                          ELSE <<target.linked_to_type>> \o target.file_name
        /\ target.pc = "move" =>
              /\ target.move.fromKey = target.file_name
              /\ target.is_nsfw => /\ target.move.toBucket = "quarantine"
                                   /\ target.move.toKey = target.file_name
              /\ ~target.is_nsfw => /\ target.move.toBucket = target.toBucket
                                    /\ target.move.toKey = target.toKey

\* A safe object of an unmapped type goes to default-bucket under a prefixed
\* key, and an NSFW object of a prefixed type to quarantine under its own key.
DestinationComputedWitness ==
    /\ target.pc = "move"
    /\ \/ /\ ~target.is_nsfw /\ target.linked_to_type = "message"
          /\ target.move.toBucket = "default-bucket"
          /\ target.move.toKey = <<"message">> \o target.file_name
       \/ /\ target.is_nsfw /\ target.linked_to_type = "profile_picture"
          /\ target.move.toBucket = "quarantine"
          /\ Len(target.move.toKey) = 3
\* C33: whenever jobs wait in the queue of a class, a scan of that class is in
\* flight or a timeout of that class is pending.
NoStrandedJobs ==
    \A c \in Classes :
        Len(queue[c]) > 0 => scanning[c] \/ (timers[c] # {} /\ timer[c] \in timers[c])

\* Jobs wait with no timeout pending: the wake-up came during the scan, and
\* only the scan in flight stands between them and the next flush.
NoStrandedJobsWitness ==
    \E c \in Classes :
        /\ Len(queue[c]) > 0 /\ scanning[c] /\ timers[c] = {}
        /\ pass[c].pc \in {"vision", "modal", "loop", "mark"}
\* The n-th entry pushed to the queue of class c waits there.
Waits(c, n) == \E i \in DOMAIN queue[c] : queue[c][i].seq = n

\* The n-th entry of class c is in the batch of the latest scan of the class.
Handed(c, n) ==
    /\ pass[c].pc # "idle" /\ pass[c].type = c
    /\ \E i \in DOMAIN pass[c].batch : pass[c].batch[i].seq = n

\* C34: if timeouts fire and scans settle, every entry queueMediaJob pushed is
\* in the end cut off the queue and handed to scanMediaJobs in a batch.
EveryJobFlushed ==
    \A c \in Classes : \A n \in 1 .. MaxEnqueues : Waits(c, n) ~> Handed(c, n)

\* An entry pushed while a scan was in flight, whose wake-up came during that
\* scan, has been handed over in a later batch.
EveryJobFlushedWitness ==
    \E c \in Classes :
        /\ flushed[c].n >= 2 /\ flushed[c].busy
        /\ flushed[c].at > flushed[c].lastEnq + INTERVAL(IsVideo(c))
        /\ Handed(c, nEnq[c]) /\ nEnq[c] >= 3
\* How often job j is in the pipeline: entries of its queue, plus entries of
\* the batch of its class while that batch is in flight.
InPipeline(j) ==
    LET c == classOf(j)
    IN  Cardinality({i \in DOMAIN queue[c] : queue[c][i].id = j})
          + IF Running(pass[c])
            THEN Cardinality({i \in DOMAIN pass[c].batch : pass[c].batch[i].id = j})
            ELSE 0

\* C35: no job is in the pipeline more than once, whatever the interleaving
\* of the recovery with upload-complete requests and however often
\* upload-complete is called for a file key.
OnceInPipeline == \A j \in JobIds : InPipeline(j) <= 1
\* The step settles the scan of class c that was in flight.
SettlesPass(c) ==
    /\ Running(pass[c])
    /\ pass[c].pc # "loop"
    /\ inflight'[c] = inflight[c] - 1 \/ flushed'[c].n = flushed[c].n + 1
    /\ Settled(pass'[c]) \/ flushed'[c].n = flushed[c].n + 1

\* The step changes the records or the objects of job j only.
TouchesOnly(j) ==
    /\ \A k \in JobIds \ {j} : media'[k] = media[k] /\ objAt'[k] = objAt[k]
    /\ \A h \in DOMAIN blocked : h # sha256_hash(j) => blocked'[h] = blocked[h]
    /\ \A u \in DOMAIN bans : u # user_id(j) => bans'[u] = bans[u]

\* The step is one turn of the loop of the scan of class c: the job at idx is
\* reconciled and the loop moves on by one.
LoopTurn(c) ==
    /\ pass[c].pc = "loop" /\ pass[c].idx <= Len(pass[c].batch)
    /\ pass'[c].idx = pass[c].idx + 1
    /\ pass'[c].batch = pass[c].batch
    /\ TouchesOnly(pass[c].batch[pass[c].idx].id)
    /\ \A o \in Classes \ {c} : pass'[o] = pass[o]

\* C36: the scanning flag of a class is set as long as its scan runs, the
\* loop and the completion marking included; it is cleared, and a next scan
\* of the class started, only by the step that settles the scan; and the
\* records and objects change only in turns of a loop, one job of the batch
\* per turn, in the order of the batch.
PassesDoNotOverlap ==
    /\ [](\A c \in Classes : Running(pass[c]) => scanning[c] /\ inflight[c] = 1)
    /\ [][\A c \in Classes :
            /\ scanning[c] /\ ~scanning'[c] => SettlesPass(c) /\ Settled(pass'[c])
            /\ Running(pass[c]) /\ flushed'[c].n # flushed[c].n => SettlesPass(c)
            /\ Running(pass[c]) /\ ~SettlesPass(c) =>
                  /\ pass'[c].batch = pass[c].batch
                  /\ pass'[c].idx \in {1, pass[c].idx, pass[c].idx + 1}]_vars
    /\ [][<<media, objAt, blocked, bans>>' # <<media, objAt, blocked, bans>>
            => \E c \in Classes : LoopTurn(c)]_vars

\* The scans of the two classes are in flight together, one in its loop and
\* the other past it, after a turn of its loop that changed a record or an
\* object.
PassesDoNotOverlapWitness ==
    \E c \in Classes : \E o \in Classes \ {c} :
        /\ scanning[c] /\ scanning[o]
        /\ pass[c].pc = "loop" /\ pass[o].pc = "mark"
        /\ \E j \in InBatch(o) : objAt[j] # {"staging"}
\* The step deletes the row of job j.
RowDeleted(j) == status[j] # "none" /\ status'[j] = "none"

\* C37: the cleanup never deletes a row whose status is pending, whatever its
\* age; a row it deletes is complete and more than 7 days old, or
\* awaiting_upload and more than 60 minutes old.
CleanupSparesPending ==
    [][\A j \in JobIds :
          /\ status[j] = "pending" => status'[j] # "none"
          /\ RowDeleted(j) =>
                \/ /\ status[j] = "complete"
                   /\ now - created_at[j] > completeDays * 24 * 60 * 60 * 1000
                \/ /\ status[j] = "awaiting_upload"
                   /\ now - created_at[j] > incompleteMinutes * 60 * 1000]_vars

\* A run of the cleanup has deleted a row and has left a pending row that is
\* more than 7 days old.
CleanupSparesPendingWitness ==
    /\ cleanup.pc = "idle" /\ cleanup.runs > 0
    /\ \E j \in CleanupJobs : status[j] = "none"
    /\ \E j \in CleanupJobs :
          /\ status[j] = "pending"
          /\ now - created_at[j] > completeDays * 24 * 60 * 60 * 1000
\* The checks of user u in the history, and those of them no older than
\* WINDOW_MS at the time of check i (check i included).
IsCheck(u, k) == calls[u][k].op = "check"
InWindowOf(u, i) ==
    {k \in 1 .. i : IsCheck(u, k) /\ calls[u][i].at - calls[u][k].at < WINDOW_MS}
Allowed(u, i) == Cardinality({k \in InWindowOf(u, i) : calls[u][k].ok})
Recorded(u, i) == Cardinality({k \in InWindowOf(u, i) : ~calls[u][k].flagged})

\* Entry i of the history of u leaves the user flagged.
FlagsAsStated(u, i) ==
    IsCheck(u, i) /\ (calls[u][i].flagged \/ Cardinality(InWindowOf(u, i)) > SPAM_THRESHOLD)
Flags(u, i) ==
    IsCheck(u, i) /\ (calls[u][i].flagged \/ Recorded(u, i) > SPAM_THRESHOLD)

\* The rate limiter as stated, of the last call of each user (the history
\* grows by one entry per step, so every call is the last one in some state):
\* at most 10 calls are allowed in a window; every call of the window,
\* allowed or denied, counts; and a call that has more than 50 calls in its
\* window flags the user, whose later calls are all denied until the user is
\* cleared.
RateLimitAllCallsCount ==
    \A u \in Users : calls[u] # <<>> =>
        LET i == Len(calls[u])
        IN  /\ IsCheck(u, i) =>
                  /\ calls[u][i].ok => Allowed(u, i) <= LIMIT_PER_MINUTE
                  /\ calls[u][i].ok <=>
                        /\ ~calls[u][i].flagged
                        /\ Cardinality(InWindowOf(u, i)) <= LIMIT_PER_MINUTE
                  /\ i > 1 => (calls[u][i].flagged <=> FlagsAsStated(u, i - 1))
            /\ u \in spammerSet <=> FlagsAsStated(u, i)

\* C38: of the last call of each user (the history grows by one entry per
\* step, so every call is the last one in some state): at most 10 calls are
\* allowed in a window; a call is allowed if and only if the user is not
\* flagged and at most 10 calls of the window, this one included, were made
\* while the user was not flagged (allowed or denied: a call denied because
\* the user was flagged does not count); a call that has more than 50 such
\* calls in its window flags the user; and a flagged user stays flagged, and
\* is denied, until cleared.
RateLimit ==
    \A u \in Users :
        IF calls[u] = <<>> THEN u \notin spammerSet
        ELSE LET i == Len(calls[u])
             IN  /\ IsCheck(u, i) =>
                       /\ calls[u][i].ok => Allowed(u, i) <= LIMIT_PER_MINUTE
                       /\ calls[u][i].ok <=>
                             ~calls[u][i].flagged /\ Recorded(u, i) <= LIMIT_PER_MINUTE
                       /\ i > 1 => (calls[u][i].flagged <=> Flags(u, i - 1))
                 /\ u \in spammerSet <=> Flags(u, i)

\* A user was flagged, was denied more than 10 times while flagged, was
\* cleared when the calls that had flagged the user had left the window, and
\* the next call was allowed.
RateLimitWitness ==
    \E u \in Users : \E i \in DOMAIN calls[u] :
        /\ IsCheck(u, i) /\ calls[u][i].ok
        /\ Cardinality({k \in InWindowOf(u, i) : calls[u][k].flagged}) >= LIMIT_PER_MINUTE
        /\ \E c \in 1 .. i - 1 : calls[u][c].op = "clear"
====
